---- MODULE Spec2Model ----
(***************************************************************************)
(* DayFlow: the privileged admin HTTP API (server/index.js), the managed   *)
(* backend's tables and constraints (supabase/migrations), and the browser *)
(* handlers that write the same tables directly.                           *)
(*                                                                         *)
(* Every handler is an async function: one action of the model is the code *)
(* that runs from one `await` to the next, so two requests interleave      *)
(* exactly where the JavaScript event loop lets them.  A database call is  *)
(* executed atomically by the backend at the step that resumes from it,    *)
(* and may fail (the `error` of the supabase-js result) wherever the code  *)
(* has a branch for that.                                                  *)
(***************************************************************************)
EXTENDS Integers, FiniteSets, Sequences, TLC

\* ---------------------------------------------------------------- bounds
MaxOps == 1            \* requests served in a run over all nine routes
MaxLeaveOps == 2       \* leave submissions and leave-action requests in a run
MaxPayrollOps == 2     \* payroll requests in a run
MaxAttendanceOps == 2  \* check-ins and check-outs in a run
MaxClock == 3          \* ticks of the wall clock; two ticks make a calendar day
MaxValidateOps == 1    \* requests in a run over the payloads of every route
MaxAccountOps == 2     \* add-employee, update-role, listing and signup operations in a run
MaxNotifOps == 2       \* notification requests and mark-read clicks in a run
MaxAuthEvents == 3     \* sign-ins and sign-outs in a run
MaxPasswordOps == 3    \* sign-ins, sign-outs and password form submissions in a run
MaxNotFoundOps == 2    \* leave-action and update-role requests in a run
MaxReviewOps == 2      \* leave-action requests in a run over bodies that name a reviewer

\* ------------------------------------------------------------- universes
Slots == {1, 2}                       \* requests the server has in flight at once
Tabs == {1, 2}                        \* browser tabs running the employee pages
NoRow == [none |-> TRUE]              \* null / undefined row (maybeSingle found nothing)
UNDEF == "undefined"                  \* a field absent from the JSON body
NUNDEF == -1                          \* an absent numeric field
NNULL == -2                           \* a numeric field sent as null

AdminRoutes == {"add-employee", "leave-action", "leaves", "payroll", "payrolls",
                "profiles", "attendance", "notifications", "update-role"}
ReadRoutes == {"leaves", "payrolls", "profiles", "attendance"}

\* Authorization headers: absent, a non-Bearer scheme, or 'Bearer <token>'.
Tokens == {"tokA", "tokE", "tokN", "tokX"}
Headers == {[scheme |-> "absent", token |-> ""], [scheme |-> "Basic", token |-> "tokA"]}
           \cup {[scheme |-> "Bearer", token |-> t] : t \in Tokens}

\* supabase.auth.getUser(token): the user a live access token belongs to.
\* u1 is an admin, u2 an employee, u3 an auth user without a profile row;
\* tokX is expired or forged.
GetUser(token) ==
  CASE token = "tokA" -> "u1"
    [] token = "tokE" -> "u2"
    [] token = "tokN" -> "u3"
    [] OTHER -> "nobody"

VARIABLES
  authUsers,        \* auth.users: id -> email and metadata of the account
  profiles,         \* public.profiles: id -> row
  leave_requests,   \* public.leave_requests: id -> row
  payroll,          \* public.payroll: set of rows
  attendance,       \* public.attendance: set of rows
  notifications,    \* public.notifications: set of rows
  audit_logs,       \* public.audit_logs: set of rows
  req,              \* the server's requests, per connection slot
  tab,              \* browser tabs: signed-in user, handler position, page state
  clock,            \* wall clock
  nops              \* operations started so far (also the source of fresh ids)

vars == <<authUsers, profiles, leave_requests, payroll, attendance,
          notifications, audit_logs, req, tab, clock, nops>>

dbVars == <<authUsers, profiles, leave_requests, payroll, attendance,
            notifications, audit_logs>>

\* ------------------------------------------------------- request payloads
EmptyBody ==
  [user_id |-> UNDEF, role |-> UNDEF, leave_id |-> NUNDEF, action |-> UNDEF,
   admin_comment |-> UNDEF, month |-> NUNDEF, year |-> NUNDEF,
   basic_salary |-> NUNDEF, allowances |-> NUNDEF, deductions |-> NUNDEF,
   employee_id |-> UNDEF, full_name |-> UNDEF, email |-> UNDEF,
   title |-> UNDEF, message |-> UNDEF, date |-> NUNDEF,
   reviewed_by |-> UNDEF, performed_by |-> UNDEF]

NoSuchLeave == 99     \* a leave id no row has
ThisYear == 2026

LeaveActionBodies ==
  {[EmptyBody EXCEPT !.leave_id = l, !.action = a, !.admin_comment = c] :
     l \in {NUNDEF, NoSuchLeave} \cup DOMAIN leave_requests,
     a \in {UNDEF, "approved", "rejected", "pending"},
     c \in {UNDEF, "ok"}}

UpdateRoleBodies ==
  {[EmptyBody EXCEPT !.user_id = u, !.role = r] :
     u \in {UNDEF, "u1", "u2", "u3"}, r \in {UNDEF, "admin", "employee", "owner"}}

PayrollBodies ==
  {[EmptyBody EXCEPT !.user_id = "u2", !.month = m, !.year = ThisYear,
                     !.basic_salary = x[1], !.allowances = x[2], !.deductions = x[3]] :
     <<m, x>> \in {<<1, <<1, NUNDEF, NUNDEF>>>>, <<1, <<2, 1, NNULL>>>>,
                   <<2, <<2, NUNDEF, NUNDEF>>>>, <<2, <<3, NNULL, 1>>>>}}
  \cup {[EmptyBody EXCEPT !.user_id = "u2", !.month = 1, !.year = ThisYear, !.basic_salary = NNULL]}

AddEmployeeBodies ==
  {[EmptyBody EXCEPT !.employee_id = e, !.full_name = n, !.email = m] :
     e \in {UNDEF, "EMP1", "EMP4"}, n \in {UNDEF, "Dana"}, m \in {UNDEF, "u1@x", "u4@x"}}

NotificationBodies ==
  {[EmptyBody EXCEPT !.user_id = u, !.title = t, !.message = m] :
     u \in {UNDEF, "u2"}, t \in {UNDEF, "Hi"}, m \in {UNDEF, "Text"}}

AttendanceQueries == {[EmptyBody EXCEPT !.date = d] : d \in {NUNDEF, 0}}

BodiesOf(route) ==
  CASE route = "leave-action" -> LeaveActionBodies
    [] route = "update-role" -> UpdateRoleBodies
    [] route = "payroll" -> PayrollBodies
    [] route = "add-employee" -> AddEmployeeBodies
    [] route = "notifications" -> NotificationBodies
    [] route = "attendance" -> AttendanceQueries
    [] OTHER -> {EmptyBody}

\* ------------------------------------------------------------- requests
IdleReq ==
  [pc |-> "idle", id |-> 0, route |-> "none",
   header |-> [scheme |-> "absent", token |-> ""], body |-> EmptyBody,
   requesterId |-> "nobody", roleLooked |-> FALSE, profileErr |-> FALSE,
   profileRow |-> NoRow, bonusSum |-> 0, computedNet |-> 0,
   existing |-> NoRow, row |-> NoRow, userId |-> "nobody",
   dbError |-> "", status |-> 0, kind |-> "none", error |-> "", writes |-> 0,
   swallowed |-> {}]

\* res.status(code).json({error}) and res.json({...}), after which the
\* handler returns.  A response goes out once: if one was sent already the
\* caller keeps that one.
Respond(r, code, kind, error) ==
  IF r.status # 0 THEN [r EXCEPT !.pc = "done"]
  ELSE [r EXCEPT !.pc = "done", !.status = code, !.kind = kind, !.error = error]

Fail(r, code, error) == Respond(r, code, "error", error)

\* The handler of slot s runs on to its next await, or has returned
\* (pc "done": the response is on its way to the caller).
Continue(s, r) == req' = [req EXCEPT ![s] = r]

\* The caller has the response; the slot takes the next request.
Reply(s) ==
  /\ req[s].pc = "done"
  /\ req' = [req EXCEPT ![s] = IdleReq]
  /\ UNCHANGED <<dbVars, tab, clock, nops>>

\* `!x` of JavaScript on a string field and on a numeric field of the body.
Falsy(x) == x \in {UNDEF, ""}

FalsyNum(x) == x \in {NUNDEF, NNULL, 0}

\* `x || null` on a string field.
OrNull(x) == IF Falsy(x) THEN "null" ELSE x

\* The 403 body of each route.
ForbiddenMessage(route) ==
  IF route \in {"add-employee", "update-role"}
    THEN "Forbidden: admin role required" ELSE "Forbidden"

\* ValidationError without the `includes` tests on action and role.
ValidationErrorMutant(route, b) ==
  CASE route = "add-employee" ->
         IF Falsy(b.employee_id) \/ Falsy(b.full_name) \/ Falsy(b.email)
           THEN "Missing required fields" ELSE ""
    [] route = "leave-action" ->
         IF FalsyNum(b.leave_id) \/ Falsy(b.action) THEN "Invalid payload" ELSE ""
    [] route = "payroll" ->
         IF Falsy(b.user_id) \/ FalsyNum(b.month) \/ FalsyNum(b.year) \/ b.basic_salary = NUNDEF
           THEN "Missing required fields" ELSE ""
    [] route = "attendance" ->
         IF b.date = NUNDEF THEN "Missing date query param" ELSE ""
    [] route = "notifications" ->
         IF Falsy(b.user_id) \/ Falsy(b.title) \/ Falsy(b.message)
           THEN "Missing fields" ELSE ""
    [] route = "update-role" ->
         IF Falsy(b.user_id) \/ Falsy(b.role)
           THEN "Invalid payload: user_id and role (admin/employee) required" ELSE ""
    [] OTHER -> ""

\* Payload validation of each route, between the role check and the first
\* table access: the 400 message, or "" when the payload passes.
ValidationError(route, b) ==
  CASE route = "add-employee" ->
         IF Falsy(b.employee_id) \/ Falsy(b.full_name) \/ Falsy(b.email)
           THEN "Missing required fields" ELSE ""
    [] route = "leave-action" ->
         IF FalsyNum(b.leave_id) \/ Falsy(b.action) \/ b.action \notin {"approved", "rejected"}
           THEN "Invalid payload" ELSE ""
    [] route = "payroll" ->
         IF Falsy(b.user_id) \/ FalsyNum(b.month) \/ FalsyNum(b.year) \/ b.basic_salary = NUNDEF
           THEN "Missing required fields" ELSE ""
    [] route = "attendance" ->
         IF b.date = NUNDEF THEN "Missing date query param" ELSE ""
    [] route = "notifications" ->
         IF Falsy(b.user_id) \/ Falsy(b.title) \/ Falsy(b.message)
           THEN "Missing fields" ELSE ""
    [] route = "update-role" ->
         IF Falsy(b.user_id) \/ Falsy(b.role) \/ b.role \notin {"admin", "employee"}
           THEN "Invalid payload: user_id and role (admin/employee) required" ELSE ""
    [] OTHER -> ""

\* The first awaited call of each route after the role check.
FirstCall(route) ==
  CASE route = "add-employee" -> "dupEmployee"
    [] route = "leave-action" -> "leaveUpdate"
    [] route = "payroll" -> "bonus"
    [] route = "notifications" -> "notifInsert"
    [] route = "update-role" -> "roleUpdate"
    [] OTHER -> "select"

\* The header passes `authHeader && authHeader.toString().startsWith('Bearer ')`.
HasBearerMutant(header) == header.scheme # "absent"

HasBearer(header) == header.scheme = "Bearer"

\* A request arrives; the handler checks the Authorization header and calls
\* supabase.auth.getUser(token).
Receive(s, route, header, body) ==
  /\ req[s].pc = "idle"
  /\ nops' = nops + 1
  /\ LET r == [IdleReq EXCEPT !.id = nops + 1, !.route = route,
                              !.header = header, !.body = body]
     IN Continue(s,
                  IF ~HasBearer(header)
                    THEN Fail(r, 401, "Missing Authorization header")
                    ELSE [r EXCEPT !.pc = "getUser"])
  /\ UNCHANGED <<dbVars, tab, clock>>

\* getUser resolved: 401 when it erred or found no user.
Authenticate(s) ==
  /\ req[s].pc = "getUser"
  /\ \E userErr \in BOOLEAN :
       LET user == IF userErr THEN "nobody" ELSE GetUser(req[s].header.token)
       IN Continue(s,
                    IF user = "nobody"
                      THEN Fail(req[s], 401, "Invalid token")
                      ELSE [req[s] EXCEPT !.pc = "roleLookup", !.requesterId = user])
  /\ UNCHANGED <<dbVars, tab, clock, nops>>

\* The negation of `!profileRow || profileRow.role !== 'admin'`.
IsAdminMutant(profileRow) == profileRow = NoRow \/ profileRow.role = "admin"

IsAdmin(profileRow) == profileRow # NoRow /\ profileRow.role = "admin"

\* The role each user had when the server started, as a cache would hold it.
StoredRoleMutant(requesterId) ==
  CASE requesterId = "u1" -> [role |-> "admin"]
    [] requesterId = "u2" -> [role |-> "employee"]
    [] OTHER -> NoRow

\* profiles.select('role').eq('id', requesterId).maybeSingle(): the row as the
\* table holds it when the query runs.
StoredRole(requesterId) ==
  IF requesterId \in DOMAIN profiles
    THEN [role |-> profiles[requesterId].role] ELSE NoRow

\* RoleCheck with the `return` before res.status(403) left out: the 403 goes
\* out and the handler runs on.
RoleCheckMutant(s) ==
  /\ req[s].pc = "roleLookup"
  /\ \E profileErr \in BOOLEAN :
       LET r == req[s]
           profileRow == StoredRole(r.requesterId)
           looked == [r EXCEPT !.roleLooked = TRUE, !.profileErr = profileErr,
                               !.profileRow = IF profileErr THEN NoRow ELSE profileRow]
           sent == IF IsAdmin(profileRow) THEN looked
                   ELSE [Fail(looked, 403, ForbiddenMessage(r.route)) EXCEPT !.pc = r.pc]
       IN Continue(s,
            IF profileErr THEN Fail(looked, 500, "Failed to verify role")
            ELSE IF ValidationError(r.route, r.body) # ""
              THEN Fail(sent, 400, ValidationError(r.route, r.body))
            ELSE [sent EXCEPT !.pc = FirstCall(r.route)])
  /\ UNCHANGED <<dbVars, tab, clock, nops>>

\* profiles.select('role').eq('id', requesterId).maybeSingle() resolved:
\* 500 on a query error, 403 unless the row exists with role 'admin', then
\* the route validates its payload (400) and issues its first table call.
RoleCheck(s) ==
  /\ req[s].pc = "roleLookup"
  /\ \E profileErr \in BOOLEAN :
       LET r == req[s]
           profileRow == StoredRole(r.requesterId)
           looked == [r EXCEPT !.roleLooked = TRUE, !.profileErr = profileErr,
                               !.profileRow = IF profileErr THEN NoRow ELSE profileRow]
       IN Continue(s,
            IF profileErr THEN Fail(looked, 500, "Failed to verify role")
            ELSE IF ~IsAdmin(profileRow)
              THEN Fail(looked, 403, ForbiddenMessage(r.route))
            ELSE IF ValidationError(r.route, r.body) # ""
              THEN Fail(looked, 400, ValidationError(r.route, r.body))
            ELSE [looked EXCEPT !.pc = FirstCall(r.route)])
  /\ UNCHANGED <<dbVars, tab, clock, nops>>

\* ------------------------------------------- best-effort side-effect rows
\* One request inserts at most one row into each of these tables, so the id
\* of the writing operation stands for the generated uuid.
NotificationRow(id, user_id, title, message) ==
  [id |-> id, user_id |-> user_id, title |-> title, message |-> message, read |-> FALSE]

AuditRow(id, action, performed_by, target_user_id, details) ==
  [id |-> id, action |-> action, performed_by |-> performed_by,
   target_user_id |-> target_user_id, details |-> details]

\* ------------------------------------------- GET leaves / payrolls / profiles / attendance
ReadError(route) ==
  CASE route = "leaves" -> "Failed to fetch leave requests"
    [] route = "payrolls" -> "Failed to fetch payrolls"
    [] route = "profiles" -> "Failed to fetch profiles"
    [] OTHER -> "Failed to fetch attendance"

\* The listing query resolved: 500 on error, else 200 {data}.
Select(s) ==
  /\ req[s].pc = "select"
  /\ \E error \in BOOLEAN :
       Continue(s,
                 IF error THEN Fail(req[s], 500, ReadError(req[s].route))
                 ELSE Respond(req[s], 200, "data", ""))
  /\ UNCHANGED <<dbVars, tab, clock, nops>>

\* ------------------------------------------- POST /api/admin/leave-action
UpdatePayloadMutant(b, adminId) ==
  [status |-> "approved", admin_comments |-> OrNull(b.admin_comment), reviewed_by |-> adminId]

\* updatePayload: the columns the leave-action update writes.
UpdatePayload(b, adminId) ==
  [status |-> b.action, admin_comments |-> OrNull(b.admin_comment), reviewed_by |-> adminId]

\* leave_requests.update(updatePayload).eq('id', leave_id).select().maybeSingle()
\* resolved.  The update is keyed on the id alone.
LeaveUpdate(s) ==
  /\ req[s].pc = "leaveUpdate"
  /\ \E updErr \in BOOLEAN :
       LET r == req[s]
           b == r.body
       IN IF updErr
            THEN /\ Continue(s, Fail(r, 500, "Failed to update leave request"))
                 /\ UNCHANGED leave_requests
          ELSE IF b.leave_id \notin DOMAIN leave_requests
            THEN /\ Continue(s, Fail(r, 404, "Leave request not found"))
                 /\ UNCHANGED leave_requests
          ELSE LET p == UpdatePayload(b, r.requesterId)
                   updated == [leave_requests[b.leave_id] EXCEPT
                                 !.status = p.status,
                                 !.admin_comments = p.admin_comments,
                                 !.reviewed_by = p.reviewed_by]
               IN /\ leave_requests' = [leave_requests EXCEPT ![b.leave_id] = updated]
                  /\ Continue(s, [r EXCEPT !.pc = "leaveNotify", !.row = updated,
                                                         !.writes = @ + 1])
  /\ UNCHANGED <<authUsers, profiles, payroll, attendance, notifications, audit_logs,
                 tab, clock, nops>>

\* LeaveNotify answering 500 when the notification insert fails.
LeaveNotifyMutant(s) ==
  /\ req[s].pc = "leaveNotify"
  /\ \E inserted \in BOOLEAN :
       LET r == req[s]
           title == IF r.body.action = "approved" THEN "Leave Approved" ELSE "Leave Rejected"
       IN /\ notifications' = IF inserted
               THEN notifications \cup {NotificationRow(r.id, r.row.user_id, title,
                                          <<r.body.action, r.body.admin_comment>>)}
               ELSE notifications
          /\ Continue(s, IF inserted THEN [r EXCEPT !.pc = "leaveAudit", !.writes = @ + 1]
                         ELSE Fail([r EXCEPT !.swallowed = @ \cup {"notification"}],
                                   500, "Internal server error"))
  /\ UNCHANGED <<authUsers, profiles, leave_requests, payroll, attendance, audit_logs,
                 tab, clock, nops>>

\* The notification insert resolved; its error is not looked at.
LeaveNotify(s) ==
  /\ req[s].pc = "leaveNotify"
  /\ \E inserted \in BOOLEAN :
       LET r == req[s]
           title == IF r.body.action = "approved" THEN "Leave Approved" ELSE "Leave Rejected"
       IN /\ notifications' = IF inserted
               THEN notifications \cup {NotificationRow(r.id, r.row.user_id, title,
                                          <<r.body.action, r.body.admin_comment>>)}
               ELSE notifications
          /\ Continue(s, [r EXCEPT !.pc = "leaveAudit",
                                          !.writes = IF inserted THEN @ + 1 ELSE @,
                 !.swallowed = IF inserted THEN @ ELSE @ \cup {"notification"}])
  /\ UNCHANGED <<authUsers, profiles, leave_requests, payroll, attendance, audit_logs,
                 tab, clock, nops>>

\* LeaveAudit taking performed_by and the target from the body when it has them.
LeaveAuditMutant(s) ==
  /\ req[s].pc = "leaveAudit"
  /\ \E inserted \in BOOLEAN :
       LET r == req[s]
           actionLabel == IF r.body.action = "approved" THEN "Leave Approved" ELSE "Leave Rejected"
           by == IF Falsy(r.body.performed_by) THEN r.requesterId ELSE r.body.performed_by
           target == IF Falsy(r.body.user_id) THEN r.row.user_id ELSE r.body.user_id
       IN /\ audit_logs' = IF inserted
               THEN audit_logs \cup {AuditRow(r.id, actionLabel, by, target,
                                       [leave_id |-> r.body.leave_id,
                                        admin_comment |-> OrNull(r.body.admin_comment)])}
               ELSE audit_logs
          /\ Continue(s,
                       Respond([r EXCEPT !.writes = IF inserted THEN @ + 1 ELSE @,
                 !.swallowed = IF inserted THEN @ ELSE @ \cup {"audit"}],
                               200, "success", ""))
  /\ UNCHANGED <<authUsers, profiles, leave_requests, payroll, attendance, notifications,
                 tab, clock, nops>>

\* The audit insert resolved (error not looked at); respond {success, leave}.
LeaveAudit(s) ==
  /\ req[s].pc = "leaveAudit"
  /\ \E inserted \in BOOLEAN :
       LET r == req[s]
           actionLabel == IF r.body.action = "approved" THEN "Leave Approved" ELSE "Leave Rejected"
       IN /\ audit_logs' = IF inserted
               THEN audit_logs \cup {AuditRow(r.id, actionLabel, r.requesterId, r.row.user_id,
                                       [leave_id |-> r.body.leave_id,
                                        admin_comment |-> OrNull(r.body.admin_comment)])}
               ELSE audit_logs
          /\ Continue(s,
                       Respond([r EXCEPT !.writes = IF inserted THEN @ + 1 ELSE @,
                 !.swallowed = IF inserted THEN @ ELSE @ \cup {"audit"}],
                               200, "success", ""))
  /\ UNCHANGED <<authUsers, profiles, leave_requests, payroll, attendance, notifications,
                 tab, clock, nops>>

\* ------------------------------------------- POST /api/admin/update-role
\* CREATE TYPE public.app_role AS ENUM ('employee', 'admin'), the type of
\* profiles.role: the column takes no other value.
AppRole == {"employee", "admin"}

\* RoleUpdate without the `if (!updated)` branch.
RoleUpdateMutant(s) ==
  /\ req[s].pc = "roleUpdate"
  /\ \E updErr \in BOOLEAN :
       LET r == req[s]
           b == r.body
       IN IF updErr \/ b.role \notin AppRole
            THEN /\ Continue(s, Fail(r, 500, "Failed to update role"))
                 /\ UNCHANGED profiles
          ELSE IF b.user_id \notin DOMAIN profiles
            THEN /\ Continue(s, [r EXCEPT !.pc = "roleAudit"])
                 /\ UNCHANGED profiles
          ELSE LET updated == [profiles[b.user_id] EXCEPT !.role = b.role]
               IN /\ profiles' = [profiles EXCEPT ![b.user_id] = updated]
                  /\ Continue(s, [r EXCEPT !.pc = "roleAudit", !.row = updated,
                                                         !.writes = @ + 1])
  /\ UNCHANGED <<authUsers, leave_requests, payroll, attendance, notifications, audit_logs,
                 tab, clock, nops>>

\* profiles.update({role}).eq('id', user_id).select().maybeSingle() resolved.
RoleUpdate(s) ==
  /\ req[s].pc = "roleUpdate"
  /\ \E updErr \in BOOLEAN :
       LET r == req[s]
           b == r.body
       IN IF updErr \/ b.role \notin AppRole
            THEN /\ Continue(s, Fail(r, 500, "Failed to update role"))
                 /\ UNCHANGED profiles
          ELSE IF b.user_id \notin DOMAIN profiles
            THEN /\ Continue(s, Fail(r, 404, "User not found"))
                 /\ UNCHANGED profiles
          ELSE LET updated == [profiles[b.user_id] EXCEPT !.role = b.role]
               IN /\ profiles' = [profiles EXCEPT ![b.user_id] = updated]
                  /\ Continue(s, [r EXCEPT !.pc = "roleAudit", !.row = updated,
                                                         !.writes = @ + 1])
  /\ UNCHANGED <<authUsers, leave_requests, payroll, attendance, notifications, audit_logs,
                 tab, clock, nops>>

\* The audit insert resolved (error not looked at); respond {success, profile}.
RoleAudit(s) ==
  /\ req[s].pc = "roleAudit"
  /\ \E inserted \in BOOLEAN :
       LET r == req[s]
       IN /\ audit_logs' = IF inserted
               THEN audit_logs \cup {AuditRow(r.id, "Role Updated", r.requesterId, r.body.user_id,
                                       [new_role |-> r.body.role])}
               ELSE audit_logs
          /\ Continue(s,
                       Respond([r EXCEPT !.writes = IF inserted THEN @ + 1 ELSE @,
                 !.swallowed = IF inserted THEN @ ELSE @ \cup {"audit"}],
                               200, "success", ""))
  /\ UNCHANGED <<authUsers, profiles, leave_requests, payroll, attendance, notifications,
                 tab, clock, nops>>

\* ------------------------------------------- POST /api/admin/notifications
\* notifications.insert([{user_id, title, message}]) resolved.
NotifInsert(s) ==
  /\ req[s].pc = "notifInsert"
  /\ \E error \in BOOLEAN :
       LET r == req[s]
       IN IF error
            THEN /\ Continue(s, Fail(r, 500, "Failed to create notification"))
                 /\ UNCHANGED notifications
            ELSE /\ notifications' = notifications \cup
                       {NotificationRow(r.id, r.body.user_id, r.body.title, <<r.body.message>>)}
                 /\ Continue(s, Respond([r EXCEPT !.writes = @ + 1],
                                                      200, "success", ""))
  /\ UNCHANGED <<authUsers, profiles, leave_requests, payroll, attendance, audit_logs,
                 tab, clock, nops>>

\* ------------------------------------------- public.payroll and its constraints
\* COALESCE(x, 0) of the generated column.
Coalesce(x) == IF x = NNULL THEN 0 ELSE x

GeneratedNetMutant(basic_salary, allowances, deductions) ==
  basic_salary + Coalesce(allowances) + Coalesce(deductions)

\* net_salary GENERATED ALWAYS AS (basic_salary + COALESCE(allowances, 0)
\*                                 - COALESCE(deductions, 0)) STORED
GeneratedNet(basic_salary, allowances, deductions) ==
  basic_salary + Coalesce(allowances) - Coalesce(deductions)

PayrollRow(id, user_id, month, year, basic_salary, allowances, deductions) ==
  [id |-> id, user_id |-> user_id, month |-> month, year |-> year,
   basic_salary |-> basic_salary, allowances |-> allowances, deductions |-> deductions,
   net_salary |-> GeneratedNet(basic_salary, allowances, deductions)]

PayrollFor(user_id, month, year) ==
  {p \in payroll : p.user_id = user_id /\ p.month = month /\ p.year = year}

\* The SQLSTATE an INSERT of the row raises, "" when the row is accepted:
\* basic_salary NOT NULL, CHECK (month >= 1 AND month <= 12), the foreign key
\* to auth.users, UNIQUE (user_id, month, year).
PayrollInsertError(user_id, month, year, basic_salary) ==
  IF basic_salary = NNULL THEN "23502"
  ELSE IF month < 1 \/ month > 12 THEN "23514"
  ELSE IF user_id \notin DOMAIN authUsers THEN "23503"
  ELSE IF PayrollFor(user_id, month, year) # {} THEN "23505"
  ELSE ""

\* `allowances = 0` in the destructuring: only undefined takes the default.
Default0(x) == IF x = NUNDEF THEN 0 ELSE x

\* `parseFloat(x) || 0`
ParseFloatOr0(x) == IF x \in {NUNDEF, NNULL} THEN 0 ELSE x

\* Rows of the bonuses table; no code of the repository writes it.
BonusRows == {[id |-> 1, user_id |-> "u2", month |-> 1, year |-> ThisYear, amount |-> 1]}

RECURSIVE SumAmounts(_)
SumAmounts(rows) ==
  IF rows = {} THEN 0
  ELSE LET b == CHOOSE x \in rows : TRUE IN b.amount + SumAmounts(rows \ {b})

\* ------------------------------------------- POST /api/admin/payroll
\* The bonuses query resolved (errors default the sum to 0); computedNet is
\* worked out for the audit row and the existence check is issued.
PayrollBonus(s) ==
  /\ req[s].pc = "bonus"
  /\ \E bonusErr \in BOOLEAN :
       LET r == req[s]
           b == r.body
           bonusSum == IF bonusErr THEN 0
                       ELSE SumAmounts({x \in BonusRows : x.user_id = b.user_id
                                          /\ x.month = b.month /\ x.year = b.year})
           computedNet == ParseFloatOr0(b.basic_salary) + ParseFloatOr0(Default0(b.allowances))
                          + bonusSum - ParseFloatOr0(Default0(b.deductions))
       IN Continue(s, [r EXCEPT !.pc = "payrollExists", !.bonusSum = bonusSum,
                                              !.computedNet = computedNet])
  /\ UNCHANGED <<dbVars, tab, clock, nops>>

\* payroll.select('*').eq(user_id).eq(month).eq(year).maybeSingle() resolved:
\* the handler goes on to update the row it found, or to insert.
PayrollExists(s) ==
  /\ req[s].pc = "payrollExists"
  /\ \E existsErr \in BOOLEAN :
       LET r == req[s]
           found == PayrollFor(r.body.user_id, r.body.month, r.body.year)
       IN Continue(s,
            IF existsErr \/ Cardinality(found) > 1
              THEN Fail(r, 500, "Failed to check existing payroll")
            ELSE IF found # {}
              THEN [r EXCEPT !.pc = "payrollUpdate", !.existing = CHOOSE p \in found : TRUE]
            ELSE [r EXCEPT !.pc = "payrollInsert"])
  /\ UNCHANGED <<dbVars, tab, clock, nops>>

PayrollUpdateTargetsMutant(existing) == {p \in payroll : p.user_id = existing.user_id}

\* The rows an UPDATE of the payroll handler rewrites: those with the id of
\* the row the existence check found.
PayrollUpdateTargets(existing) == {p \in payroll : p.id = existing.id}

\* PayrollUpdate adding the posted basic salary to the stored one.
PayrollUpdateMutant(s) ==
  /\ req[s].pc = "payrollUpdate"
  /\ \E updErr \in BOOLEAN :
       LET r == req[s]
           b == r.body
           targets == PayrollUpdateTargets(r.existing)
           Rewrite(p) == PayrollRow(p.id, p.user_id, p.month, p.year,
                                    p.basic_salary + b.basic_salary,
                                    Default0(b.allowances), Default0(b.deductions))
       IN IF updErr \/ b.basic_salary = NNULL
            THEN /\ Continue(s,
                              Fail([r EXCEPT !.dbError = IF updErr THEN "other" ELSE "23502"],
                                   500, "Failed to update payroll"))
                 /\ UNCHANGED payroll
            ELSE /\ payroll' = (payroll \ targets) \cup {Rewrite(p) : p \in targets}
                 /\ Continue(s, [r EXCEPT !.pc = "payrollAudit",
                                                 !.row = Rewrite(r.existing), !.writes = @ + 1])
  /\ UNCHANGED <<authUsers, profiles, leave_requests, attendance, notifications, audit_logs,
                 tab, clock, nops>>

\* payroll.update({basic_salary, allowances, deductions}).eq('id', existing.id) resolved.
PayrollUpdate(s) ==
  /\ req[s].pc = "payrollUpdate"
  /\ \E updErr \in BOOLEAN :
       LET r == req[s]
           b == r.body
           targets == PayrollUpdateTargets(r.existing)
           Rewrite(p) == PayrollRow(p.id, p.user_id, p.month, p.year, b.basic_salary,
                                    Default0(b.allowances), Default0(b.deductions))
       IN IF updErr \/ b.basic_salary = NNULL
            THEN /\ Continue(s,
                              Fail([r EXCEPT !.dbError = IF updErr THEN "other" ELSE "23502"],
                                   500, "Failed to update payroll"))
                 /\ UNCHANGED payroll
            ELSE /\ payroll' = (payroll \ targets) \cup {Rewrite(p) : p \in targets}
                 /\ Continue(s, [r EXCEPT !.pc = "payrollAudit",
                                                 !.row = Rewrite(r.existing), !.writes = @ + 1])
  /\ UNCHANGED <<authUsers, profiles, leave_requests, attendance, notifications, audit_logs,
                 tab, clock, nops>>

\* payroll.insert([{user_id, month, year, basic_salary, allowances, deductions}]) resolved.
PayrollInsert(s) ==
  /\ req[s].pc = "payrollInsert"
  /\ \E createErr \in BOOLEAN :
       LET r == req[s]
           b == r.body
           sqlstate == PayrollInsertError(b.user_id, b.month, b.year, b.basic_salary)
           created == PayrollRow(r.id, b.user_id, b.month, b.year, b.basic_salary,
                                 Default0(b.allowances), Default0(b.deductions))
       IN IF createErr \/ sqlstate # ""
            THEN /\ Continue(s,
                              Fail([r EXCEPT !.dbError = IF sqlstate # "" THEN sqlstate ELSE "other"],
                                   500, "Failed to create payroll"))
                 /\ UNCHANGED payroll
            ELSE /\ payroll' = payroll \cup {created}
                 /\ Continue(s, [r EXCEPT !.pc = "payrollAudit", !.row = created,
                                                        !.writes = @ + 1])
  /\ UNCHANGED <<authUsers, profiles, leave_requests, attendance, notifications, audit_logs,
                 tab, clock, nops>>

\* The audit insert resolved (error not looked at).
PayrollAudit(s) ==
  /\ req[s].pc = "payrollAudit"
  /\ \E inserted \in BOOLEAN :
       LET r == req[s]
           action == IF r.existing # NoRow THEN "Payroll Updated" ELSE "Payroll Created"
       IN /\ audit_logs' = IF inserted
               THEN audit_logs \cup {AuditRow(r.id, action, r.requesterId, r.body.user_id,
                                       [payroll_id |-> r.row.id, month |-> r.body.month,
                                        year |-> r.body.year, computedNet |-> r.computedNet])}
               ELSE audit_logs
          /\ Continue(s, [r EXCEPT !.pc = "payrollNotify",
                                          !.writes = IF inserted THEN @ + 1 ELSE @,
                 !.swallowed = IF inserted THEN @ ELSE @ \cup {"audit"}])
  /\ UNCHANGED <<authUsers, profiles, leave_requests, payroll, attendance, notifications,
                 tab, clock, nops>>

\* The notification insert resolved (error not looked at); respond {success, payroll}.
PayrollNotify(s) ==
  /\ req[s].pc = "payrollNotify"
  /\ \E inserted \in BOOLEAN :
       LET r == req[s]
       IN /\ notifications' = IF inserted
               THEN notifications \cup {NotificationRow(r.id, r.body.user_id, "Payroll Updated",
                                          <<r.body.month, r.body.year>>)}
               ELSE notifications
          /\ Continue(s,
                       Respond([r EXCEPT !.writes = IF inserted THEN @ + 1 ELSE @,
                 !.swallowed = IF inserted THEN @ ELSE @ \cup {"notification"}],
                               200, "success", ""))
  /\ UNCHANGED <<authUsers, profiles, leave_requests, payroll, attendance, audit_logs,
                 tab, clock, nops>>

\* ------------------------------------------- auth.users and public.profiles
\* is_first_login is false unless the row is written with it set.
ProfileRow(employee_id, email, full_name, role) ==
  [employee_id |-> employee_id, email |-> email, full_name |-> full_name, role |-> role,
   is_first_login |-> FALSE]

\* The uuid auth gives the account an operation creates.
NewUserId(n) == <<"n1", "n2", "n3", "n4", "n5", "n6", "n7", "n8">>[n]

\* A row of auth.users: the email and the metadata given when the account
\* was made.
AuthUser(email, employee_id, full_name, role) ==
  [email |-> email,
   raw_user_meta_data |-> [employee_id |-> employee_id, full_name |-> full_name, role |-> role]]

AuthUsersWithEmail(m) == {u \in DOMAIN authUsers : authUsers[u].email = m}

ProfilesWithEmployeeId(e) == {u \in DOMAIN profiles : profiles[u].employee_id = e}

ProfilesWithEmail(m) == {u \in DOMAIN profiles : profiles[u].email = m}

\* handle_new_user on a role column that has no default.
HandleNewUserMutant(employee_id, email, full_name) ==
  ProfileRow(employee_id, email, full_name, "null")

\* handle_new_user(), the AFTER INSERT trigger on auth.users: the profile row
\* it inserts from the signup metadata; the role column takes its default.
HandleNewUser(employee_id, email, full_name) ==
  ProfileRow(employee_id, email, full_name, "employee")

\* ------------------------------------------- POST /api/admin/add-employee
\* DupEmployee answering a taken employee_id with 400.
DupEmployeeMutant(s) ==
  /\ req[s].pc = "dupEmployee"
  /\ \E err1 \in BOOLEAN :
       LET r == req[s]
       IN Continue(s,
            IF err1 THEN Fail(r, 500, "query error")
            ELSE IF ProfilesWithEmployeeId(r.body.employee_id) # {}
              THEN Fail(r, 400, "Employee ID already exists")
            ELSE [r EXCEPT !.pc = "dupEmail"])
  /\ UNCHANGED <<dbVars, tab, clock, nops>>

\* The duplicate check on employee_id resolved.
DupEmployee(s) ==
  /\ req[s].pc = "dupEmployee"
  /\ \E err1 \in BOOLEAN :
       LET r == req[s]
       IN Continue(s,
            IF err1 THEN Fail(r, 500, "query error")
            ELSE IF ProfilesWithEmployeeId(r.body.employee_id) # {}
              THEN Fail(r, 409, "Employee ID already exists")
            ELSE [r EXCEPT !.pc = "dupEmail"])
  /\ UNCHANGED <<dbVars, tab, clock, nops>>

\* The duplicate check on email resolved; its error is not looked at, and
\* maybeSingle yields no data when it errs.
DupEmail(s) ==
  /\ req[s].pc = "dupEmail"
  /\ \E err2 \in BOOLEAN :
       LET r == req[s]
           found == ProfilesWithEmail(r.body.email)
           existingByEmail == ~err2 /\ Cardinality(found) = 1
       IN Continue(s,
            IF existingByEmail THEN Fail(r, 409, "Email already exists")
            ELSE [r EXCEPT !.pc = "createUser"])
  /\ UNCHANGED <<dbVars, tab, clock, nops>>

\* CreateUser on a database without the on_auth_user_created trigger.
CreateUserMutant(s) ==
  /\ req[s].pc = "createUser"
  /\ \E createErr \in BOOLEAN :
       LET r == req[s]
           b == r.body
           userId == NewUserId(r.id)
       IN IF createErr \/ AuthUsersWithEmail(b.email) # {}
            THEN /\ Continue(s, Fail(r, 500, "createUser error"))
                 /\ UNCHANGED authUsers
            ELSE /\ authUsers' = authUsers @@
                       (userId :> AuthUser(b.email, b.employee_id, b.full_name, "employee"))
                 /\ Continue(s, [r EXCEPT !.pc = "profileInsert", !.userId = userId,
                                          !.writes = @ + 1])
  /\ UNCHANGED <<profiles, leave_requests, payroll, attendance, notifications, audit_logs,
                 tab, clock, nops>>

\* supabase.auth.admin.createUser resolved.  Auth refuses an email that an
\* account already has.  The insert into auth.users and the trigger's insert
\* into profiles are one transaction: a unique violation on employee_id in
\* the trigger fails the whole call.
CreateUser(s) ==
  /\ req[s].pc = "createUser"
  /\ \E createErr \in BOOLEAN :
       LET r == req[s]
           b == r.body
           userId == NewUserId(r.id)
       IN IF createErr \/ AuthUsersWithEmail(b.email) # {}
             \/ ProfilesWithEmployeeId(b.employee_id) # {}
            THEN /\ Continue(s, Fail(r, 500, "createUser error"))
                 /\ UNCHANGED <<authUsers, profiles>>
            ELSE /\ authUsers' = authUsers @@
                       (userId :> AuthUser(b.email, b.employee_id, b.full_name, "employee"))
                 /\ profiles' = profiles @@
                       (userId :> HandleNewUser(b.employee_id, b.email, b.full_name))
                 /\ Continue(s, [r EXCEPT !.pc = "profileInsert", !.userId = userId,
                                          !.writes = @ + 2])
  /\ UNCHANGED <<leave_requests, payroll, attendance, notifications, audit_logs,
                 tab, clock, nops>>

\* profiles.insert([{id: userId, ...}]) resolved; a failure (the primary key
\* the trigger already used, a duplicate employee_id) is only logged.
ProfileInsert(s) ==
  /\ req[s].pc = "profileInsert"
  /\ \E pErr \in BOOLEAN :
       LET r == req[s]
           b == r.body
           rejected == pErr \/ r.userId \in DOMAIN profiles
                       \/ ProfilesWithEmployeeId(b.employee_id) # {}
       IN /\ profiles' = IF rejected THEN profiles
                         ELSE profiles @@ (r.userId :>
                                ProfileRow(b.employee_id, b.email, b.full_name, "employee"))
          /\ Continue(s, [r EXCEPT !.pc = "employeeAudit",
                                   !.writes = IF rejected THEN @ ELSE @ + 1])
  /\ UNCHANGED <<authUsers, leave_requests, payroll, attendance, notifications, audit_logs,
                 tab, clock, nops>>

\* The audit insert resolved (error not looked at).
EmployeeAudit(s) ==
  /\ req[s].pc = "employeeAudit"
  /\ \E inserted \in BOOLEAN :
       LET r == req[s]
       IN /\ audit_logs' = IF inserted
               THEN audit_logs \cup {AuditRow(r.id, "create_employee", r.requesterId, r.userId,
                                       [employee_id |-> r.body.employee_id,
                                        full_name |-> r.body.full_name,
                                        email |-> r.body.email])}
               ELSE audit_logs
          /\ Continue(s, [r EXCEPT !.pc = "employeeNotify",
                                   !.writes = IF inserted THEN @ + 1 ELSE @,
                 !.swallowed = IF inserted THEN @ ELSE @ \cup {"audit"}])
  /\ UNCHANGED <<authUsers, profiles, leave_requests, payroll, attendance, notifications,
                 tab, clock, nops>>

\* The notification insert resolved (error not looked at); respond {userId, tempPassword}.
EmployeeNotify(s) ==
  /\ req[s].pc = "employeeNotify"
  /\ \E inserted \in BOOLEAN :
       LET r == req[s]
       IN /\ notifications' = IF inserted
               THEN notifications \cup {NotificationRow(r.id, r.userId, "Account created",
                                          <<"temporary password">>)}
               ELSE notifications
          /\ Continue(s, Respond([r EXCEPT !.writes = IF inserted THEN @ + 1 ELSE @,
                 !.swallowed = IF inserted THEN @ ELSE @ \cup {"notification"}],
                                 200, "user", ""))
  /\ UNCHANGED <<authUsers, profiles, leave_requests, payroll, attendance, audit_logs,
                 tab, clock, nops>>

\* ------------------------------------------- the browser: employee pages
Today(c) == c \div 2      \* the calendar date at clock value c

IdleTab(user) ==
  [user |-> user, op |-> "idle", args |-> NoRow, loading |-> TRUE,
   todayRecord |-> NoRow, weeklyRecords |-> {}, fetches |-> {},
   error |-> "", toast |-> "", notes |-> {}, form |-> NoRow,
   session |-> "nobody", getSession |-> TRUE, authUser |-> "nobody", role |-> "null",
   isFirstLogin |-> FALSE, authLoading |-> TRUE, profileFetches |-> {},
   pathname |-> "/login"]

\* fetchAttendance() is called: `today` is taken now, the queries run later.
StartFetch(c) == [stage |-> "today", today |-> Today(c)]

AttendanceRow(id, user_id, date, check_in) ==
  [id |-> id, user_id |-> user_id, date |-> date, check_in |-> check_in,
   check_out |-> NNULL, status |-> "present"]

AttendanceFor(user_id, date) ==
  {a \in attendance : a.user_id = user_id /\ a.date = date}

AttendanceInsertErrorMutant(user_id, date) == ""

\* The code of the error an INSERT into attendance raises, "" when accepted:
\* UNIQUE (user_id, date).
AttendanceInsertError(user_id, date) ==
  IF AttendanceFor(user_id, date) # {} THEN "23505" ELSE ""

\* EmployeeAttendance, fetchAttendance: the query for today's record resolved.
FetchToday(t) ==
  /\ \E f \in tab[t].fetches :
       /\ f.stage = "today"
       /\ LET found == AttendanceFor(tab[t].user, f.today)
              todayData == IF Cardinality(found) = 1 THEN CHOOSE a \in found : TRUE ELSE NoRow
          IN tab' = [tab EXCEPT ![t].todayRecord = todayData,
                                ![t].fetches = (@ \ {f}) \cup {[f EXCEPT !.stage = "week"]}]
  /\ UNCHANGED <<dbVars, req, clock, nops>>

\* fetchAttendance: the weekly query resolved; the page stops loading.
FetchWeek(t) ==
  /\ \E f \in tab[t].fetches :
       /\ f.stage = "week"
       /\ tab' = [tab EXCEPT ![t].weeklyRecords = {a \in attendance : a.user_id = tab[t].user},
                             ![t].loading = FALSE,
                             ![t].fetches = @ \ {f}]
  /\ UNCHANGED <<dbVars, req, clock, nops>>

\* handleCheckIn up to its await; the Check In button is rendered while the
\* page has no record for today.
HandleCheckIn(t) ==
  /\ tab[t].op = "idle"
  /\ ~tab[t].loading
  /\ tab[t].todayRecord = NoRow
  /\ nops' = nops + 1
  /\ tab' = [tab EXCEPT ![t].op = "checkIn",
                        ![t].args = AttendanceRow(nops + 1, tab[t].user, Today(clock), clock)]
  /\ UNCHANGED <<dbVars, req, clock>>

\* handleCheckIn after the insert resolved.
CheckInResolved(t) ==
  /\ tab[t].op = "checkIn"
  /\ \E failed \in BOOLEAN :
       LET a == tab[t].args
           code == IF failed THEN "other" ELSE AttendanceInsertError(a.user_id, a.date)
       IN IF code # ""
            THEN /\ tab' = [tab EXCEPT ![t].op = "idle", ![t].args = NoRow,
                              ![t].error = code,
                              ![t].toast = IF code = "23505" THEN "Already checked in today"
                                           ELSE "Failed to check in"]
                 /\ UNCHANGED attendance
            ELSE /\ attendance' = attendance \cup {a}
                 /\ tab' = [tab EXCEPT ![t].op = "idle", ![t].args = NoRow,
                              ![t].error = "", ![t].toast = "Checked In!",
                              ![t].fetches = @ \cup {StartFetch(clock)}]
  /\ UNCHANGED <<authUsers, profiles, leave_requests, payroll, notifications, audit_logs,
                 req, clock, nops>>

\* handleCheckOut up to its await; the Check Out button is rendered while
\* the page's record for today has no check_out.
HandleCheckOut(t) ==
  /\ tab[t].op = "idle"
  /\ ~tab[t].loading
  /\ tab[t].todayRecord # NoRow
  /\ tab[t].todayRecord.check_out = NNULL
  /\ nops' = nops + 1
  /\ tab' = [tab EXCEPT ![t].op = "checkOut",
                        ![t].args = [id |-> tab[t].todayRecord.id, check_out |-> clock]]
  /\ UNCHANGED <<dbVars, req, clock>>

\* CheckOutResolved with an update that also writes the status.
CheckOutResolvedMutant(t) ==
  /\ tab[t].op = "checkOut"
  /\ \E error \in BOOLEAN :
       LET a == tab[t].args
       IN IF error
            THEN /\ tab' = [tab EXCEPT ![t].op = "idle", ![t].args = NoRow,
                              ![t].toast = "Failed to check out"]
                 /\ UNCHANGED attendance
            ELSE /\ attendance' = {IF x.id = a.id
                                     THEN [x EXCEPT !.check_out = a.check_out, !.status = "left"]
                                   ELSE x : x \in attendance}
                 /\ tab' = [tab EXCEPT ![t].op = "idle", ![t].args = NoRow,
                              ![t].toast = "Checked Out!",
                              ![t].fetches = @ \cup {StartFetch(clock)}]
  /\ UNCHANGED <<authUsers, profiles, leave_requests, payroll, notifications, audit_logs,
                 req, clock, nops>>

\* handleCheckOut after attendance.update({check_out}).eq('id', id) resolved.
CheckOutResolved(t) ==
  /\ tab[t].op = "checkOut"
  /\ \E error \in BOOLEAN :
       LET a == tab[t].args
       IN IF error
            THEN /\ tab' = [tab EXCEPT ![t].op = "idle", ![t].args = NoRow,
                              ![t].toast = "Failed to check out"]
                 /\ UNCHANGED attendance
            ELSE /\ attendance' = {IF x.id = a.id THEN [x EXCEPT !.check_out = a.check_out]
                                   ELSE x : x \in attendance}
                 /\ tab' = [tab EXCEPT ![t].op = "idle", ![t].args = NoRow,
                              ![t].toast = "Checked Out!",
                              ![t].fetches = @ \cup {StartFetch(clock)}]
  /\ UNCHANGED <<authUsers, profiles, leave_requests, payroll, notifications, audit_logs,
                 req, clock, nops>>

\* The wall clock advances.
Tick ==
  /\ clock < MaxClock
  /\ clock' = clock + 1
  /\ UNCHANGED <<dbVars, req, tab, nops>>

\* EmployeeLeave, handleSubmit up to its await: the date check, then the insert is issued.
LeaveDates == {1, 2}    \* dates the leave form is filled with

LeaveRow(id, user_id, leave_type, start_date, end_date, remarks) ==
  [id |-> id, user_id |-> user_id, leave_type |-> leave_type, start_date |-> start_date,
   end_date |-> end_date, remarks |-> remarks, status |-> "pending",
   admin_comments |-> "null", reviewed_by |-> "null"]

\* handleSubmit without the comparison of the dates.
HandleSubmitLeaveMutant(t, startDate, endDate) ==
  /\ tab[t].op = "idle"
  /\ nops' = nops + 1
  /\ tab' = [tab EXCEPT ![t].form = [startDate |-> startDate, endDate |-> endDate],
                        ![t].op = "leaveInsert",
                        ![t].args = LeaveRow(nops + 1, tab[t].user, "paid",
                                             startDate, endDate, "null")]
  /\ UNCHANGED <<dbVars, req, clock>>

\* The form holds the dates typed into its two required date inputs; the
\* insert names no status, which takes the column's default.
HandleSubmitLeave(t, startDate, endDate) ==
  /\ tab[t].op = "idle"
  /\ nops' = nops + 1
  /\ tab' = IF startDate > endDate
              THEN [tab EXCEPT ![t].form = [startDate |-> startDate, endDate |-> endDate],
                               ![t].toast = "End date must be after start date"]
              ELSE [tab EXCEPT ![t].form = [startDate |-> startDate, endDate |-> endDate],
                               ![t].op = "leaveInsert",
                               ![t].args = LeaveRow(nops + 1, tab[t].user, "paid",
                                                    startDate, endDate, "null")]
  /\ UNCHANGED <<dbVars, req, clock>>

\* handleSubmit after the insert into leave_requests resolved.
LeaveInsertResolved(t) ==
  /\ tab[t].op = "leaveInsert"
  /\ \E error \in BOOLEAN :
       LET l == tab[t].args
       IN IF error
            THEN /\ tab' = [tab EXCEPT ![t].op = "idle", ![t].args = NoRow,
                              ![t].toast = "Failed to submit leave request"]
                 /\ UNCHANGED leave_requests
            ELSE /\ leave_requests' = leave_requests @@ (l.id :> l)
                 /\ tab' = [tab EXCEPT ![t].op = "idle", ![t].args = NoRow,
                              ![t].form = NoRow,
                              ![t].toast = "Leave request submitted successfully"]
  /\ UNCHANGED <<authUsers, profiles, payroll, attendance, notifications, audit_logs,
                 req, clock, nops>>

\* ------------------------------------------------------- specifications
\* The database after earlier use: an admin (u1), an employee (u2) whose
\* account an admin made and who has not changed the temporary password yet,
\* with a pending leave request and a payroll record for month 2, and an
\* account without a profile row (u3).  Both tabs show u2's attendance page.
FirstLeave == 10
FirstPayroll == 11

Init ==
  /\ authUsers = ("u1" :> AuthUser("u1@x", "EMP1", "Ada", "admin"))
                 @@ ("u2" :> AuthUser("u2@x", "EMP2", "Bob", "employee"))
                 @@ ("u3" :> AuthUser("u3@x", "EMP3", "Cy", "employee"))
  /\ profiles = ("u1" :> ProfileRow("EMP1", "u1@x", "Ada", "admin"))
                @@ ("u2" :> [ProfileRow("EMP2", "u2@x", "Bob", "employee")
                               EXCEPT !.is_first_login = TRUE])
  /\ leave_requests = (FirstLeave :> LeaveRow(FirstLeave, "u2", "paid", 1, 2, "null"))
  /\ payroll = {PayrollRow(FirstPayroll, "u2", 2, ThisYear, 1, 0, 0)}
  /\ attendance = {}
  /\ notifications = {}
  /\ audit_logs = {}
  /\ req = [s \in Slots |-> IdleReq]
  /\ tab = [t \in Tabs |-> [IdleTab("u2") EXCEPT !.fetches = {StartFetch(0)}]]
  /\ clock = 0
  /\ nops = 0

\* One step of a request handler of the admin API.
Handler(s) ==
  \/ Authenticate(s)
  \/ RoleCheck(s)
  \/ Select(s)
  \/ LeaveUpdate(s)
  \/ LeaveNotify(s)
  \/ LeaveAudit(s)
  \/ RoleUpdate(s)
  \/ RoleAudit(s)
  \/ NotifInsert(s)
  \/ PayrollBonus(s)
  \/ PayrollExists(s)
  \/ PayrollUpdate(s)
  \/ PayrollInsert(s)
  \/ PayrollAudit(s)
  \/ PayrollNotify(s)
  \/ DupEmployee(s)
  \/ DupEmail(s)
  \/ CreateUser(s)
  \/ ProfileInsert(s)
  \/ EmployeeAudit(s)
  \/ EmployeeNotify(s)
  \/ Reply(s)

\* Payloads for the runs over all nine routes: for each route the payloads
\* that pass validation and one payload for each way of failing it.
GateBodies(route) ==
  CASE route = "leave-action" ->
         {[EmptyBody EXCEPT !.leave_id = FirstLeave, !.action = "approved", !.admin_comment = "ok"],
          [EmptyBody EXCEPT !.leave_id = FirstLeave, !.action = "rejected"],
          [EmptyBody EXCEPT !.leave_id = NoSuchLeave, !.action = "approved"],
          [EmptyBody EXCEPT !.action = "approved"],
          [EmptyBody EXCEPT !.leave_id = FirstLeave, !.action = "pending"]}
    [] route = "update-role" ->
         {[EmptyBody EXCEPT !.user_id = "u2", !.role = "admin"],
          [EmptyBody EXCEPT !.user_id = "u1", !.role = "employee"],
          [EmptyBody EXCEPT !.user_id = "u3", !.role = "admin"],
          [EmptyBody EXCEPT !.role = "admin"],
          [EmptyBody EXCEPT !.user_id = "u2", !.role = "owner"]}
    [] route = "payroll" ->
         {[EmptyBody EXCEPT !.user_id = "u2", !.month = 1, !.year = ThisYear, !.basic_salary = 2],
          [EmptyBody EXCEPT !.user_id = "u2", !.month = 2, !.year = ThisYear, !.basic_salary = 2],
          [EmptyBody EXCEPT !.user_id = "u2", !.month = 1, !.year = ThisYear],
          [EmptyBody EXCEPT !.user_id = "u2", !.month = 0, !.year = ThisYear, !.basic_salary = 2]}
    [] route = "add-employee" ->
         {[EmptyBody EXCEPT !.employee_id = "EMP4", !.full_name = "Dana", !.email = "u4@x"],
          [EmptyBody EXCEPT !.employee_id = "EMP1", !.full_name = "Dana", !.email = "u4@x"],
          [EmptyBody EXCEPT !.employee_id = "EMP4", !.full_name = "Dana", !.email = "u1@x"],
          [EmptyBody EXCEPT !.employee_id = "EMP4", !.email = "u4@x"]}
    [] route = "notifications" ->
         {[EmptyBody EXCEPT !.user_id = "u2", !.title = "Hi", !.message = "Text"],
          [EmptyBody EXCEPT !.user_id = "u2", !.message = "Text"]}
    [] route = "attendance" -> AttendanceQueries
    [] OTHER -> {EmptyBody}

\* The admin API: any request on any route, two at a time.
Next ==
  \/ \E s \in Slots, route \in AdminRoutes, header \in Headers :
       \E body \in GateBodies(route) : nops < MaxOps /\ Receive(s, route, header, body)
  \/ \E s \in Slots : Handler(s)

Spec == Init /\ [][Next]_vars

\* Callers of the runs on one route: the admin, or the admin and an employee.
AdminHeader == [scheme |-> "Bearer", token |-> "tokA"]

SignedIn == {AdminHeader, [scheme |-> "Bearer", token |-> "tokE"]}

\* ------------------------------------------- the browser: notifications page
\* Notifications, fetchNotifications: the query resolved.  A user who is not
\* an admin asks for the rows addressed to them.
FetchNotifications(t) ==
  /\ tab[t].op = "idle"
  /\ \E error \in BOOLEAN :
       tab' = [tab EXCEPT
                 ![t].notes = IF error THEN @
                              ELSE {n \in notifications : n.user_id = tab[t].user},
                 ![t].toast = IF error THEN "Failed to load notifications" ELSE @]
  /\ UNCHANGED <<dbVars, req, clock, nops>>

\* markRead up to its await; the Mark read button is rendered for the notes
\* of the list that are unread.
MarkRead(t, n) ==
  /\ tab[t].op = "idle"
  /\ n \in tab[t].notes
  /\ ~n.read
  /\ nops' = nops + 1
  /\ tab' = [tab EXCEPT ![t].op = "markRead", ![t].args = n]
  /\ UNCHANGED <<dbVars, req, clock>>

\* notifications.update({read: true}).eq('id', id) resolved; row level
\* security lets a user update the rows addressed to them.
MarkReadResolved(t) ==
  /\ tab[t].op = "markRead"
  /\ \E error \in BOOLEAN :
       LET id == tab[t].args.id
           targets == {n \in notifications : n.id = id /\ n.user_id = tab[t].user}
       IN IF error
            THEN /\ tab' = [tab EXCEPT ![t].op = "idle", ![t].args = NoRow,
                                       ![t].toast = "Failed to mark read"]
                 /\ UNCHANGED notifications
            ELSE /\ notifications' = (notifications \ targets)
                                        \cup {[n EXCEPT !.read = TRUE] : n \in targets}
                 /\ tab' = [tab EXCEPT
                              ![t].op = "idle", ![t].args = NoRow,
                              ![t].notes = {IF n.id = id THEN [n EXCEPT !.read = TRUE] ELSE n :
                                              n \in @}]
  /\ UNCHANGED <<authUsers, profiles, leave_requests, payroll, attendance, audit_logs,
                 req, clock, nops>>

\* Notifications: the admin sends them, the employee reads them.
NextNotifications ==
  \/ \E s \in Slots, body \in NotificationBodies :
       nops < MaxNotifOps /\ Receive(s, "notifications", AdminHeader, body)
  \/ \E s \in Slots : Authenticate(s)
  \/ \E s \in Slots : RoleCheck(s)
  \/ \E s \in Slots : NotifInsert(s)
  \/ \E s \in Slots : Reply(s)
  \/ \E t \in Tabs : FetchNotifications(t)
  \/ \E t \in Tabs : \E n \in tab[t].notes : nops < MaxNotifOps /\ MarkRead(t, n)
  \/ \E t \in Tabs : MarkReadResolved(t)

SpecNotifications == Init /\ [][NextNotifications]_vars

\* ------------------------------------------- the browser: AuthProvider
\* The tab record holds the supabase client's session (session, "nobody" when
\* signed out), whether getSession() of the mount effect is still pending,
\* the context values user, role, isFirstLogin and loading (authUser, role,
\* isFirstLogin, authLoading), the fetchProfile calls that have not resolved,
\* and the location.

\* A user signs in: the onAuthStateChange callback sets session and user and
\* starts fetchProfile; signIn fetches the same profile for the same setters.
AuthSignedIn(t, u) ==
  /\ tab[t].session = "nobody"
  /\ nops' = nops + 1
  /\ tab' = [tab EXCEPT ![t].session = u, ![t].authUser = u,
                        ![t].profileFetches =
                           @ \cup {[userId |-> u, event |-> "SIGNED_IN", initial |-> FALSE]}]
  /\ UNCHANGED <<dbVars, req, clock>>

\* signOut and the SIGNED_OUT callback: user, session and role are cleared.
\* Profile fetches in flight are not cancelled.
AuthSignedOut(t) ==
  /\ tab[t].session # "nobody"
  /\ nops' = nops + 1
  /\ tab' = [tab EXCEPT ![t].session = "nobody", ![t].authUser = "nobody",
                        ![t].role = "null", ![t].isFirstLogin = FALSE]
  /\ UNCHANGED <<dbVars, req, clock>>

\* supabase.auth.getSession() of the mount effect resolved.
GetSessionResolved(t) ==
  /\ tab[t].getSession
  /\ tab' = [tab EXCEPT
               ![t].getSession = FALSE,
               ![t].authUser = tab[t].session,
               ![t].profileFetches =
                  IF tab[t].session # "nobody"
                    THEN @ \cup {[userId |-> tab[t].session, event |-> "getSession",
                                   initial |-> TRUE]}
                    ELSE @,
               ![t].authLoading = IF tab[t].session # "nobody" THEN @ ELSE FALSE]
  /\ UNCHANGED <<dbVars, req, clock, nops>>

\* A fetchProfile resolved and its `then` ran: role and isFirstLogin are set
\* from the row of the user the fetch was started for (null on an error or
\* when there is no row); the fetch of the mount effect ends loading.
ProfileFetched(t) ==
  /\ \E f \in tab[t].profileFetches, error \in BOOLEAN :
       LET p == IF error \/ f.userId \notin DOMAIN profiles THEN NoRow
                ELSE profiles[f.userId]
       IN tab' = [tab EXCEPT
                    ![t].isFirstLogin = (p # NoRow /\ p.is_first_login),
                    ![t].role = IF p = NoRow THEN "null" ELSE p.role,
                    ![t].authLoading = IF f.initial THEN FALSE ELSE @,
                    ![t].profileFetches = @ \ {f}]
  /\ UNCHANGED <<dbVars, req, clock, nops>>

\* ------------------------------------------- the browser: routes
AdminPaths == {"/admin/dashboard", "/admin/payroll"}

EmployeePaths == {"/employee/dashboard"}

ProtectedPaths == AdminPaths \cup EmployeePaths \cup {"/change-password", "/notifications"}

\* allowedRoles of the ProtectedRoute of a path; {} stands for the prop left out.
AllowedRoles(path) ==
  IF path \in AdminPaths THEN {"admin"}
  ELSE IF path \in EmployeePaths THEN {"employee"}
  ELSE {}

\* ProtectedRoute with the role check ahead of the first-login check.
ProtectedRouteMutant(allowedRoles, ctx, pathname) ==
  IF ctx.authLoading THEN "spinner"
  ELSE IF ctx.authUser = "nobody" THEN "/login"
  ELSE IF allowedRoles # {} /\ ctx.role # "null" /\ ctx.role \notin allowedRoles
    THEN (IF ctx.role = "admin" THEN "/admin/dashboard" ELSE "/employee/dashboard")
  ELSE IF ctx.isFirstLogin /\ pathname # "/change-password" THEN "/change-password"
  ELSE "children"

\* What ProtectedRoute renders: the spinner, its children, or a Navigate to
\* the path returned.
ProtectedRoute(allowedRoles, ctx, pathname) ==
  IF ctx.authLoading THEN "spinner"
  ELSE IF ctx.authUser = "nobody" THEN "/login"
  ELSE IF ctx.isFirstLogin /\ pathname # "/change-password" THEN "/change-password"
  ELSE IF allowedRoles # {} /\ ctx.role # "null" /\ ctx.role \notin allowedRoles
    THEN (IF ctx.role = "admin" THEN "/admin/dashboard" ELSE "/employee/dashboard")
  ELSE "children"

\* What the route of the tab's location renders.
Rendered(t) ==
  IF tab[t].pathname \in ProtectedPaths
    THEN ProtectedRoute(AllowedRoles(tab[t].pathname), tab[t], tab[t].pathname)
    ELSE "children"

\* The user follows a link or enters a URL.
GoTo(t, path) ==
  /\ tab[t].pathname # path
  /\ tab' = [tab EXCEPT ![t].pathname = path]
  /\ UNCHANGED <<dbVars, req, clock, nops>>

\* <Navigate to=... replace /> rendered by ProtectedRoute takes effect.
FollowNavigate(t) ==
  /\ Rendered(t) \notin {"spinner", "children"}
  /\ tab' = [tab EXCEPT ![t].pathname = Rendered(t)]
  /\ UNCHANGED <<dbVars, req, clock, nops>>

\* One browser: auth events, profile fetches and navigation.
NextAuth ==
  \/ \E u \in {"u1", "u2", "u3"} : nops < MaxAuthEvents /\ AuthSignedIn(1, u)
  \/ nops < MaxAuthEvents /\ AuthSignedOut(1)
  \/ GetSessionResolved(1)
  \/ ProfileFetched(1)
  \/ \E path \in ProtectedPaths \cup {"/login"} : GoTo(1, path)
  \/ FollowNavigate(1)

SpecAuth == Init /\ [][NextAuth]_vars

\* ------------------------------------------- the browser: ChangePassword
Passwords == {<<1, 2, 3>>, <<1, 2, 3, 4, 5, 6>>, <<1, 2, 3, 4, 5, 7>>}

\* The dashboard of a role; any role but 'admin' goes to the employee one.
Dashboard(role) == IF role = "admin" THEN "/admin/dashboard" ELSE "/employee/dashboard"

\* ChangePassword rendered without a session, or with isFirstLogin false:
\* it navigates away instead of showing the form.
ChangePasswordRedirect(t) ==
  /\ tab[t].pathname = "/change-password"
  /\ Rendered(t) = "children"
  /\ tab[t].session = "nobody" \/ ~tab[t].isFirstLogin
  /\ tab' = [tab EXCEPT ![t].pathname = IF tab[t].session = "nobody" THEN "/login"
                                         ELSE Dashboard(tab[t].role)]
  /\ UNCHANGED <<dbVars, req, clock, nops>>

\* handleSubmit of the form up to its first await: the two checks on the
\* password, then supabase.auth.updateUser is called.
HandleSubmitPassword(t, password, confirm) ==
  /\ tab[t].pathname = "/change-password"
  /\ Rendered(t) = "children"
  /\ tab[t].session # "nobody"
  /\ tab[t].isFirstLogin
  /\ tab[t].op = "idle"
  /\ nops' = nops + 1
  /\ tab' = IF Len(password) < 6
              THEN [tab EXCEPT ![t].toast = "Password must be at least 6 characters"]
            ELSE IF password # confirm
              THEN [tab EXCEPT ![t].toast = "Passwords do not match"]
            ELSE [tab EXCEPT ![t].op = "updateUser", ![t].error = "", ![t].toast = ""]
  /\ UNCHANGED <<dbVars, req, clock>>

\* updateUser resolved.  When it succeeded the client has emitted
\* USER_UPDATED: the onAuthStateChange callback has set session and user again
\* and started a fetchProfile.
UpdateUserResolved(t) ==
  /\ tab[t].op = "updateUser"
  /\ \E updateError \in BOOLEAN :
       tab' = IF updateError \/ tab[t].session = "nobody"
                THEN [tab EXCEPT ![t].op = "idle", ![t].toast = "Error"]
                ELSE [tab EXCEPT ![t].op = "getUser",
                                 ![t].authUser = tab[t].session,
                                 ![t].profileFetches =
                                    @ \cup {[userId |-> tab[t].session,
                                              event |-> "USER_UPDATED", initial |-> FALSE]}]
  /\ UNCHANGED <<dbVars, req, clock, nops>>

\* supabase.auth.getUser() resolved: without a user id the page goes to
\* /login, else the update of is_first_login is issued.
GetUserResolved(t) ==
  /\ tab[t].op = "getUser"
  /\ \E error \in BOOLEAN :
       LET userId == IF error THEN "nobody" ELSE tab[t].session
       IN tab' = IF userId = "nobody"
                   THEN [tab EXCEPT ![t].op = "idle", ![t].pathname = "/login"]
                   ELSE [tab EXCEPT ![t].op = "writeFirstLogin", ![t].args = [userId |-> userId]]
  /\ UNCHANGED <<dbVars, req, clock, nops>>

\* profiles.update({is_first_login: false}).eq('id', userId) resolved; a
\* failure is only logged.  Row level security lets the signed-in user update
\* their own row.
FirstLoginWritten(t) ==
  /\ tab[t].op = "writeFirstLogin"
  /\ \E pError \in BOOLEAN :
       LET userId == tab[t].args.userId
           mine == userId = tab[t].session /\ userId \in DOMAIN profiles
       IN /\ profiles' = IF pError \/ ~mine THEN profiles
                         ELSE [profiles EXCEPT ![userId].is_first_login = FALSE]
          /\ tab' = [tab EXCEPT ![t].op = "refetchRole",
                                ![t].error = IF pError THEN "pError" ELSE ""]
  /\ UNCHANGED <<authUsers, leave_requests, payroll, attendance, notifications, audit_logs,
                 req, clock, nops>>

\* The role was read again: `updatedProfile?.role || role || 'employee'`,
\* the toast, and navigate to the dashboard of that role.
RoleRefetched(t) ==
  /\ tab[t].op = "refetchRole"
  /\ \E error \in BOOLEAN :
       LET userId == tab[t].args.userId
           updatedRole == IF error \/ userId # tab[t].session \/ userId \notin DOMAIN profiles
                            THEN "null" ELSE profiles[userId].role
           userRole == IF updatedRole # "null" THEN updatedRole
                       ELSE IF tab[t].role # "null" THEN tab[t].role
                       ELSE "employee"
       IN tab' = [tab EXCEPT ![t].op = "idle", ![t].args = NoRow,
                             ![t].toast = "Password updated",
                             ![t].pathname = Dashboard(userRole)]
  /\ UNCHANGED <<dbVars, req, clock, nops>>

\* What the backend, the client library and the router do on their own in
\* the browser of the password change: every call resolves, every fetch
\* resolves, every Navigate is followed.
PasswordFairness ==
  /\ WF_vars(GetSessionResolved(1))
  /\ WF_vars(ProfileFetched(1))
  /\ WF_vars(FollowNavigate(1))
  /\ WF_vars(ChangePasswordRedirect(1))
  /\ WF_vars(UpdateUserResolved(1))
  /\ WF_vars(GetUserResolved(1))
  /\ WF_vars(FirstLoginWritten(1))
  /\ WF_vars(RoleRefetched(1))

\* One browser: a user signs in, is sent to /change-password, and submits
\* the form.
NextPassword ==
  \/ \E u \in {"u1", "u2"} : nops < MaxPasswordOps /\ AuthSignedIn(1, u)
  \/ nops < MaxPasswordOps /\ AuthSignedOut(1)
  \/ \E path \in {"/employee/dashboard", "/change-password"} : GoTo(1, path)
  \/ \E password \in Passwords, confirm \in Passwords :
       nops < MaxPasswordOps /\ HandleSubmitPassword(1, password, confirm)
  \/ GetSessionResolved(1)
  \/ ProfileFetched(1)
  \/ FollowNavigate(1)
  \/ ChangePasswordRedirect(1)
  \/ UpdateUserResolved(1)
  \/ GetUserResolved(1)
  \/ FirstLoginWritten(1)
  \/ RoleRefetched(1)

\* The user is under no obligation to act.
SpecPassword == Init /\ [][NextPassword]_vars /\ PasswordFairness

\* options.data of signUp with the role argument passed on.
SignUpDataMutant(employeeId, fullName, role) ==
  [employee_id |-> employeeId, full_name |-> fullName, role |-> role]

\* options.data of the supabase.auth.signUp call: enforcedRole is the
\* constant 'admin', the role argument is not read.
SignUpData(employeeId, fullName, role) ==
  [employee_id |-> employeeId, full_name |-> fullName, role |-> "admin"]

\* AuthProvider.signUp called from the form of tab t.  Auth refuses a
\* registered email; the trigger inserts the profile row in the transaction
\* of the insert into auth.users, so a taken employee_id fails the signup.
SignUp(t, email, employeeId, role) ==
  /\ nops' = nops + 1
  /\ LET userId == NewUserId(nops + 1)
         data == SignUpData(employeeId, "Eve", role)
         refused == AuthUsersWithEmail(email) # {}
                    \/ ProfilesWithEmployeeId(data.employee_id) # {}
     IN /\ tab' = [tab EXCEPT ![t].form = [email |-> email, employeeId |-> employeeId,
                                           role |-> role],
                              ![t].error = IF refused THEN "signUp" ELSE ""]
        /\ IF refused
             THEN UNCHANGED <<authUsers, profiles>>
             ELSE /\ authUsers' = authUsers @@
                        (userId :> AuthUser(email, data.employee_id, data.full_name, data.role))
                  /\ profiles' = profiles @@
                        (userId :> HandleNewUser(data.employee_id, email, data.full_name))
  /\ UNCHANGED <<leave_requests, payroll, attendance, notifications, audit_logs,
                 req, clock>>

\* Payloads of the runs over accounts and roles.
AccountBodies(route) ==
  CASE route = "add-employee" ->
         {[EmptyBody EXCEPT !.employee_id = e, !.full_name = "Dana", !.email = m] :
            e \in {"EMP1", "EMP4"}, m \in {"u1@x", "u4@x"}}
    [] route = "update-role" ->
         {[EmptyBody EXCEPT !.user_id = u, !.role = r] :
            u \in {"u1", "u2"}, r \in {"admin", "employee", "owner"}}
    [] OTHER -> {EmptyBody}

\* Accounts and roles: admins create employees and set roles, anyone signs
\* up, and signed-in users call the API.
NextAccounts ==
  \/ \E s \in Slots, route \in {"add-employee", "update-role", "profiles"},
        header \in SignedIn :
       \E body \in AccountBodies(route) :
         nops < MaxAccountOps /\ Receive(s, route, header, body)
  \/ \E s \in Slots : Authenticate(s)
  \/ \E s \in Slots : RoleCheck(s)
  \/ \E s \in Slots : Select(s)
  \/ \E s \in Slots : RoleUpdate(s)
  \/ \E s \in Slots : RoleAudit(s)
  \/ \E s \in Slots : DupEmployee(s)
  \/ \E s \in Slots : DupEmail(s)
  \/ \E s \in Slots : CreateUser(s)
  \/ \E s \in Slots : ProfileInsert(s)
  \/ \E s \in Slots : EmployeeAudit(s)
  \/ \E s \in Slots : EmployeeNotify(s)
  \/ \E s \in Slots : Reply(s)
  \/ \E email \in {"u2@x", "u5@x"}, employeeId \in {"EMP4", "EMP5"}, role \in AppRole :
       nops < MaxAccountOps /\ SignUp(1, email, employeeId, role)

SpecAccounts == Init /\ [][NextAccounts]_vars

\* Payloads of the admin's requests in the runs over payload validation: every
\* combination of present, absent and out-of-range fields of each route.
ValidationBodies(route) ==
  IF route = "payroll"
    THEN PayrollBodies \cup
         {[EmptyBody EXCEPT !.month = 1, !.year = ThisYear, !.basic_salary = 1],
          [EmptyBody EXCEPT !.user_id = "u2", !.year = ThisYear, !.basic_salary = 1],
          [EmptyBody EXCEPT !.user_id = "u2", !.month = 1, !.basic_salary = 1],
          [EmptyBody EXCEPT !.user_id = "u2", !.month = 1, !.year = ThisYear]}
    ELSE BodiesOf(route)

\* The admin API called by the admin with any payload.
NextValidate ==
  \/ \E s \in Slots, route \in AdminRoutes :
       \E body \in ValidationBodies(route) :
         nops < MaxValidateOps /\ Receive(s, route, AdminHeader, body)
  \/ \E s \in Slots : Handler(s)

SpecValidate == Init /\ [][NextValidate]_vars

\* Decisions and role changes of the admin, with targets that exist and
\* targets that do not.
NextNotFound ==
  \/ \E s \in Slots, route \in {"leave-action", "update-role"} :
       \E body \in GateBodies(route) :
         nops < MaxNotFoundOps /\ Receive(s, route, AdminHeader, body)
  \/ \E s \in Slots : Authenticate(s)
  \/ \E s \in Slots : RoleCheck(s)
  \/ \E s \in Slots : LeaveUpdate(s)
  \/ \E s \in Slots : LeaveNotify(s)
  \/ \E s \in Slots : LeaveAudit(s)
  \/ \E s \in Slots : RoleUpdate(s)
  \/ \E s \in Slots : RoleAudit(s)
  \/ \E s \in Slots : Reply(s)

SpecNotFound == Init /\ [][NextNotFound]_vars

\* Decisions whose body also names a reviewer, a performer and a user.
ReviewBodies ==
  {[EmptyBody EXCEPT !.leave_id = FirstLeave, !.action = a, !.admin_comment = "ok",
                     !.reviewed_by = x[1], !.performed_by = x[2], !.user_id = x[3]] :
     a \in {"approved", "rejected"},
     x \in {<<UNDEF, UNDEF, UNDEF>>, <<"u2", "u2", "u1">>, <<"u3", "u2", "u3">>}}

\* Leave decisions posted by the admin and by the employee who owns the
\* request, two at a time.
NextReview ==
  \/ \E s \in Slots, header \in SignedIn, body \in ReviewBodies :
       nops < MaxReviewOps /\ Receive(s, "leave-action", header, body)
  \/ \E s \in Slots : Authenticate(s)
  \/ \E s \in Slots : RoleCheck(s)
  \/ \E s \in Slots : LeaveUpdate(s)
  \/ \E s \in Slots : LeaveNotify(s)
  \/ \E s \in Slots : LeaveAudit(s)
  \/ \E s \in Slots : Reply(s)

SpecReview == Init /\ [][NextReview]_vars

\* Decisions on the leave requests there are, and on one there is not.
LeaveBodies ==
  {b \in LeaveActionBodies : b.leave_id # NUNDEF /\ b.action \in {"approved", "rejected"}
                              /\ (b.leave_id = NoSuchLeave => b.admin_comment = UNDEF)}

\* Leave requests: employees file them, admins decide them.
NextLeave ==
  \/ \E s \in Slots, header \in SignedIn, body \in LeaveBodies :
       nops < MaxLeaveOps /\ Receive(s, "leave-action", header, body)
  \/ \E s \in Slots : Authenticate(s)
  \/ \E s \in Slots : RoleCheck(s)
  \/ \E s \in Slots : LeaveUpdate(s)
  \/ \E s \in Slots : LeaveNotify(s)
  \/ \E s \in Slots : LeaveAudit(s)
  \/ \E s \in Slots : Reply(s)
  \/ \E startDate \in LeaveDates, endDate \in LeaveDates :
       nops < MaxLeaveOps /\ HandleSubmitLeave(1, startDate, endDate)
  \/ LeaveInsertResolved(1)

SpecLeave == Init /\ [][NextLeave]_vars

\* Payroll writes, two at a time.
NextPayroll ==
  \/ \E s \in Slots, body \in PayrollBodies :
       nops < MaxPayrollOps /\ Receive(s, "payroll", AdminHeader, body)
  \/ \E s \in Slots : Authenticate(s)
  \/ \E s \in Slots : RoleCheck(s)
  \/ \E s \in Slots : PayrollBonus(s)
  \/ \E s \in Slots : PayrollExists(s)
  \/ \E s \in Slots : PayrollUpdate(s)
  \/ \E s \in Slots : PayrollInsert(s)
  \/ \E s \in Slots : PayrollAudit(s)
  \/ \E s \in Slots : PayrollNotify(s)
  \/ \E s \in Slots : Reply(s)

SpecPayroll == Init /\ [][NextPayroll]_vars

\* The attendance page in the tabs of one employee, over two days.
NextAttendance ==
  \/ \E t \in Tabs : FetchToday(t)
  \/ \E t \in Tabs : FetchWeek(t)
  \/ \E t \in Tabs : nops < MaxAttendanceOps /\ HandleCheckIn(t)
  \/ \E t \in Tabs : CheckInResolved(t)
  \/ \E t \in Tabs : nops < MaxAttendanceOps /\ HandleCheckOut(t)
  \/ \E t \in Tabs : CheckOutResolved(t)
  \/ Tick

SpecAttendance == Init /\ [][NextAttendance]_vars

\* ------------------------------------------------------------- properties
Answered == {s \in Slots : req[s].pc = "done"}

\* A row some request wrote carries the id of that request.
RowsWrittenBy(id) ==
  {p \in payroll : p.id = id} \cup {n \in notifications : n.id = id}
  \cup {a \in audit_logs : a.id = id}

\* C1: on every /api/admin/* route, a request with a valid bearer token whose
\* caller the role lookup finds without a profile row, or with a role other
\* than 'admin', is answered 403, whatever its body or query is.
C1_NonAdminForbidden ==
  \A s \in Answered :
    ( /\ HasBearer(req[s].header)
      /\ GetUser(req[s].header.token) # "nobody"
      /\ req[s].roleLooked /\ ~req[s].profileErr
      /\ (req[s].profileRow = NoRow \/ req[s].profileRow.role # "admin") )
    => req[s].status = 403

\* An account without a profile row posted a well-formed role change and got 403.
C1_Witness ==
  \E s \in Answered :
    /\ req[s].route = "update-role"
    /\ req[s].requesterId = "u3"
    /\ req[s].profileRow = NoRow
    /\ ValidationError(req[s].route, req[s].body) = ""
    /\ req[s].status = 403

\* C9: on every /api/admin/* route, a request without an Authorization
\* header, with a header that does not start with 'Bearer ', or with a token
\* that resolves to no user is answered 401, and the caller's role has not
\* been looked up.
C9_Unauthenticated ==
  \A s \in Answered :
    (req[s].header.scheme # "Bearer" \/ GetUser(req[s].header.token) = "nobody")
    => (req[s].status = 401 /\ ~req[s].roleLooked)

\* A request with a non-Bearer header that carries an admin's token got 401.
C9_Witness ==
  \E s \in Answered :
    /\ req[s].header.scheme = "Basic"
    /\ GetUser(req[s].header.token) = "u1"
    /\ req[s].status = 401
    /\ ~req[s].roleLooked

\* C10: a request answered with 401, 403 or 400 has inserted, updated or
\* deleted no row in any table and created no auth user.
C10_RejectedWritesNothing ==
  \A s \in Answered :
    req[s].status \in {400, 401, 403}
    => /\ req[s].writes = 0
       /\ RowsWrittenBy(req[s].id) = {}
       /\ NewUserId(req[s].id) \notin DOMAIN authUsers
       /\ NewUserId(req[s].id) \notin DOMAIN profiles

\* An admin's leave-action with an invalid action was answered 400 and the
\* leave request is still pending.
C10_Witness ==
  \E s \in Answered :
    /\ req[s].route = "leave-action"
    /\ req[s].body.leave_id = FirstLeave
    /\ req[s].status = 400
    /\ leave_requests[FirstLeave].status = "pending"

\* C2: a leave request's status only moves pending->approved or
\* pending->rejected: once approved or rejected, no leave-action changes it.
C2_OneWay ==
  [][\A l \in DOMAIN leave_requests :
       leave_requests[l].status \in {"approved", "rejected"}
       => leave_requests'[l].status = leave_requests[l].status]_vars

\* C3: a leave-action aimed at a request that is already approved or rejected
\* does not update the row: status, admin comment and reviewing admin keep
\* the values of the first decision.
C3_DecidedOnce ==
  [][\A l \in DOMAIN leave_requests :
       leave_requests[l].status # "pending"
       => /\ leave_requests'[l].status = leave_requests[l].status
          /\ leave_requests'[l].admin_comments = leave_requests[l].admin_comments
          /\ leave_requests'[l].reviewed_by = leave_requests[l].reviewed_by]_vars

OneAttendancePerDay ==
  \A a, b \in attendance : (a.user_id = b.user_id /\ a.date = b.date) => a = b

\* C4: there is never more than one attendance row for a (user, date), and a
\* check-in whose insert reaches the table when a row for its (user, date)
\* exists, be it older or that of a concurrent check-in, adds no row and
\* fails with the conflict error 'Already checked in today'.
C4_SecondCheckInConflicts ==
  [][/\ OneAttendancePerDay'
     /\ \A t \in Tabs :
          ( /\ tab[t].op = "checkIn" /\ tab'[t].op = "idle"
            /\ AttendanceFor(tab[t].args.user_id, tab[t].args.date) # {}
            /\ tab'[t].error # "other" )
          => /\ attendance' = attendance
             /\ tab'[t].error = "23505"
             /\ tab'[t].toast = "Already checked in today"]_vars

\* Two tabs that both showed the Check In button checked in for the same
\* day: one made the row, the other got the conflict.
C4_Witness ==
  \E t1, t2 \in Tabs :
    /\ tab[t1].toast = "Checked In!"
    /\ tab[t2].toast = "Already checked in today"
    /\ tab[t2].todayRecord = NoRow
    /\ Cardinality(AttendanceFor("u2", 0)) = 1

\* C5: a payroll POST for a (user, month, year) that already has a record
\* fails with a conflict and leaves the record's amounts as they were.
C5_CreateExistingConflicts ==
  \A s \in Answered :
    (req[s].route = "payroll" /\ req[s].existing # NoRow /\ req[s].status # 500)
    => (req[s].status = 409 /\ req[s].existing \in payroll)

\* C6: a payroll POST that updates an existing record leaves that record's
\* user_id, month and year as they were and modifies no other payroll record.
C6_EditKeepsKey ==
  [][\A s \in Slots :
       (req[s].pc = "payrollUpdate" /\ req'[s].pc # "payrollUpdate")
       => /\ Cardinality(payroll') = Cardinality(payroll)
          /\ \A p \in payroll :
               \E q \in payroll' :
                 /\ q.id = p.id /\ q.user_id = p.user_id
                 /\ q.month = p.month /\ q.year = p.year
                 /\ (p.id # req[s].existing.id => q = p)]_vars

\* A request rewrote the amounts of one of two payroll records.
C6_Witness ==
  \E s \in Slots :
    /\ req[s].pc = "payrollAudit"
    /\ req[s].existing # NoRow
    /\ req[s].row # req[s].existing
    /\ req[s].row \in payroll
    /\ Cardinality(payroll) = 2

\* C7: every payroll record's net salary is its basic salary plus its
\* allowances minus its deductions, a null allowance or deduction counting 0.
C7_NetSalary ==
  \A p \in payroll :
    p.net_salary = p.basic_salary
                   + (IF p.allowances = NNULL THEN 0 ELSE p.allowances)
                   - (IF p.deductions = NNULL THEN 0 ELSE p.deductions)

\* A record created with null deductions and a record whose update changed
\* its net salary.
C7_Witness ==
  /\ \E p \in payroll : p.id # FirstPayroll /\ p.deductions = NNULL /\ p.net_salary = 3
  /\ \E s \in Slots :
       /\ req[s].pc = "payrollAudit"
       /\ req[s].existing # NoRow
       /\ req[s].row.net_salary # req[s].existing.net_salary

OnePayrollPerPeriod ==
  \A p, q \in payroll :
    (p.user_id = q.user_id /\ p.month = q.month /\ p.year = q.year) => p = q

\* C8: when two payroll POSTs for one (user, month, year) both pass the
\* existence check before either inserts, at most one row for the key exists
\* afterwards and the request that loses the race is answered 409.
C8_RaceLoserGets409 ==
  /\ OnePayrollPerPeriod
  /\ \A s \in Answered :
       (req[s].route = "payroll" /\ req[s].existing = NoRow /\ req[s].dbError = "23505")
       => req[s].status = 409

\* The notification a request's handler inserted for a user.
NotifiedBy(id, user_id, ns) == {n \in ns : n.id = id /\ n.user_id = user_id}

\* C11 as stated: a leave-action whose update succeeds sets the row's status
\* to the posted action, creates a notification row for the owner of the
\* leave request, and answers {success: true, leave: <updated row>} with that
\* status.
C11_LeaveActionEffects ==
  [][\A s \in Slots :
       /\ (req[s].pc = "leaveUpdate" /\ req'[s].pc = "leaveNotify")
          => leave_requests'[req[s].body.leave_id].status = req[s].body.action
       /\ (req[s].pc = "leaveAudit" /\ req'[s].pc = "done")
          => /\ req'[s].status = 200 /\ req'[s].kind = "success"
             /\ req'[s].row.id = req[s].body.leave_id
             /\ req'[s].row.status = req[s].body.action
             /\ NotifiedBy(req[s].id, leave_requests[req[s].body.leave_id].user_id,
                           notifications') # {}]_vars

\* C11 amended: the status and the response are as stated; the notification
\* row for the owner exists exactly when its insert did not fail, a failure
\* the handler does not look at.
C11_LeaveActionEffectsBestEffort ==
  [][\A s \in Slots :
       /\ (req[s].pc = "leaveUpdate" /\ req'[s].pc = "leaveNotify")
          => leave_requests'[req[s].body.leave_id].status = req[s].body.action
       /\ (req[s].pc = "leaveAudit" /\ req'[s].pc = "done")
          => /\ req'[s].status = 200 /\ req'[s].kind = "success"
             /\ req'[s].row.id = req[s].body.leave_id
             /\ req'[s].row.status = req[s].body.action
             /\ (NotifiedBy(req[s].id, leave_requests[req[s].body.leave_id].user_id,
                            notifications') # {})
                <=> ("notification" \notin req'[s].swallowed)]_vars

\* A rejection was answered 200 and the owner has its notification.
C11_Witness ==
  \E s \in Answered :
    /\ req[s].route = "leave-action" /\ req[s].status = 200
    /\ req[s].body.action = "rejected"
    /\ leave_requests[req[s].body.leave_id].status = "rejected"
    /\ NotifiedBy(req[s].id, "u2", notifications) # {}

\* The role lookup of the request in slot s found the caller to be an admin.
PassedRoleCheck(s) ==
  /\ req[s].roleLooked /\ ~req[s].profileErr
  /\ req[s].profileRow # NoRow /\ req[s].profileRow.role = "admin"

\* A required field is absent from the payload or an enum field is out of range.
LacksRequired(route, b) ==
  \/ route = "leave-action" /\ (b.leave_id = NUNDEF \/ b.action \notin {"approved", "rejected"})
  \/ route = "update-role" /\ (b.user_id = UNDEF \/ b.role \notin {"admin", "employee"})
  \/ route = "payroll" /\ (b.user_id = UNDEF \/ b.month = NUNDEF \/ b.year = NUNDEF
                           \/ b.basic_salary = NUNDEF)
  \/ route = "add-employee" /\ (b.employee_id = UNDEF \/ b.full_name = UNDEF \/ b.email = UNDEF)
  \/ route = "notifications" /\ (b.user_id = UNDEF \/ b.title = UNDEF \/ b.message = UNDEF)
  \/ route = "attendance" /\ b.date = NUNDEF

\* C12: an admin's request that lacks a required field or carries an invalid
\* enum value is answered 400 with an {error} body.
C12_InvalidPayload400 ==
  \A s \in Answered :
    (PassedRoleCheck(s) /\ LacksRequired(req[s].route, req[s].body))
    => (req[s].status = 400 /\ req[s].kind = "error" /\ req[s].writes = 0)

\* The admin asked for a role outside the enum, and for a leave decision
\* 'pending', and was answered 400.
C12_Witness ==
  \E s \in Answered :
    /\ PassedRoleCheck(s) /\ req[s].status = 400
    /\ \/ req[s].route = "update-role" /\ req[s].body.user_id = "u2" /\ req[s].body.role = "owner"
       \/ req[s].route = "leave-action" /\ req[s].body.leave_id = FirstLeave
          /\ req[s].body.action = "pending"

\* A profile other than the one the request itself made uses the employee_id
\* or the email of the request in slot s.
UsedByOther(s) ==
  \E u \in DOMAIN profiles \ {NewUserId(req[s].id)} :
    \/ profiles[u].employee_id = req[s].body.employee_id
    \/ profiles[u].email = req[s].body.email

C14_SideEffectFailureSwallowed ==
  [][\A s \in Slots :
       /\ (req'[s].swallowed # req[s].swallowed /\ req'[s].swallowed # {})
          => /\ UNCHANGED <<authUsers, profiles, leave_requests, payroll>>
             /\ req'[s].status \in {0, 200}
       /\ (req[s].pc # "done" /\ req'[s].pc = "done" /\ req'[s].swallowed # {})
          => /\ req'[s].status = 200
             /\ req'[s].kind \in {"success", "user"}
             /\ req'[s].writes >= 1]_vars

\* A leave decision whose notification and audit inserts both failed was
\* answered 200, and the decision is in the table.
C14_Witness ==
  \E s \in Answered :
    /\ req[s].route = "leave-action" /\ req[s].status = 200
    /\ req[s].swallowed = {"notification", "audit"}
    /\ leave_requests[req[s].body.leave_id].status = req[s].body.action
    /\ NotifiedBy(req[s].id, "u2", notifications) = {}

\* C15: every request has its caller's role read from the profiles table as
\* it is when the request is checked: after update-role made a user an
\* employee that user's requests are answered 403, after it made a user an
\* admin that user's requests pass the role check, with the same token.
C15_RoleRecheckedPerRequest ==
  [][\A s \in Slots :
       (req[s].pc = "roleLookup" /\ req'[s].pc # "roleLookup" /\ ~req'[s].profileErr)
       => LET u == req[s].requesterId
              admin == u \in DOMAIN profiles /\ profiles[u].role = "admin"
          IN /\ ~admin => req'[s].status = 403
             /\ admin => req'[s].status \notin {401, 403}]_vars

\* u1, demoted by an update-role request, made a later request with its
\* token and was answered 403.
C15_Witness ==
  \E s \in Answered :
    /\ req[s].header.token = "tokA" /\ req[s].status = 403
    /\ profiles["u1"].role = "employee"
    /\ \E a \in audit_logs :
         /\ a.action = "Role Updated" /\ a.target_user_id = "u1"
         /\ a.id < req[s].id

\* C16: every 2xx response carries a `data` or a `success` field, and every
\* other response is {error} with a status in {400, 401, 403, 404, 409, 500}.
C16_ResponseShape ==
  \A s \in Answered :
    IF req[s].status >= 200 /\ req[s].status < 300
      THEN req[s].kind \in {"data", "success"}
      ELSE req[s].kind = "error" /\ req[s].status \in {400, 401, 403, 404, 409, 500}

\* C17: in every reachable state the role of every profile is 'employee' or
\* 'admin'.
C17_RoleIsEmployeeOrAdmin ==
  \A u \in DOMAIN profiles : profiles[u].role \in {"employee", "admin"}

\* u2 was made an admin by update-role and an account made by signup or by
\* add-employee has its profile.
C17_Witness ==
  /\ profiles["u2"].role = "admin"
  /\ \E u \in DOMAIN profiles : u \notin {"u1", "u2"}

\* C18: notification and audit-log rows are append-only: a row that is in
\* its table stays there as it is.
C18_AppendOnly ==
  [][notifications \subseteq notifications' /\ audit_logs \subseteq audit_logs']_vars

\* C19: a ProtectedRoute with allowedRoles ['admin'] renders its children
\* only while the context's role is 'admin' and is that of the signed-in
\* user: never for a user whose role is 'employee' or not known yet.
C19_AdminPagesNeedAdminRole ==
  \A t \in Tabs :
    (tab[t].pathname \in AdminPaths /\ Rendered(t) = "children")
    => /\ tab[t].role = "admin"
       /\ tab[t].authUser \in DOMAIN profiles
       /\ profiles[tab[t].authUser].role = "admin"

\* C20: while a user is signed in, isFirstLogin is true and loading is false,
\* every ProtectedRoute on a path other than /change-password renders a
\* redirect to /change-password, whatever the role.
C20_FirstLoginForcesPasswordChange ==
  \A t \in Tabs :
    ( /\ tab[t].authUser # "nobody" /\ tab[t].isFirstLogin /\ ~tab[t].authLoading
      /\ tab[t].pathname \in ProtectedPaths \ {"/change-password"} )
    => Rendered(t) = "/change-password"

\* A first-time employee is on an admin path, where the role check alone
\* would send them to the employee dashboard.
C20_Witness ==
  \E t \in Tabs :
    /\ tab[t].authUser = "u2" /\ tab[t].isFirstLogin /\ ~tab[t].authLoading
    /\ tab[t].role = "employee"
    /\ tab[t].pathname = "/admin/dashboard"
    /\ Rendered(t) = "/change-password"


\* C22: whenever the context's user is null, after signOut or a SIGNED_OUT
\* event, its role is null and isFirstLogin is false, also when a profile
\* fetch started before the sign-out resolves after it.
C22_SignedOutHasNoRole ==
  \A t \in Tabs :
    tab[t].authUser = "nobody" => (tab[t].role = "null" /\ ~tab[t].isFirstLogin)


\* The submit of ChangePassword succeeded for the user signed in: the toast
\* is shown, the write was not refused and the profile holds
\* is_first_login = false.
PasswordChanged(t) ==
  /\ tab[t].toast = "Password updated" /\ tab[t].error = ""
  /\ tab[t].op = "idle"
  /\ tab[t].authUser \in DOMAIN profiles
  /\ ~profiles[tab[t].authUser].is_first_login

\* C21: after the submit of ChangePassword succeeded, the context's
\* isFirstLogin eventually is false, so that ProtectedRoute stops redirecting
\* the user to /change-password, in whatever order the profile fetch of the
\* auth-state-change callback and the write of is_first_login complete.
C21_PasswordChangeClearsFirstLogin ==
  PasswordChanged(1) ~> ~tab[1].isFirstLogin


\* The update of the request in slot s is keyed on an id that no row of its
\* table has.
TargetMissing(s) ==
  \/ req[s].route = "leave-action" /\ req[s].body.leave_id \notin DOMAIN leave_requests
  \/ req[s].route = "update-role" /\ req[s].body.user_id \notin DOMAIN profiles

OnlyCheckOutOf(id) ==
  /\ {a.id : a \in attendance'} = {a.id : a \in attendance}
  /\ Cardinality(attendance') = Cardinality(attendance)
  /\ \A a \in attendance :
       \E b \in attendance' :
         /\ b.id = a.id /\ b.user_id = a.user_id /\ b.date = a.date
         /\ b.check_in = a.check_in /\ b.status = a.status
         /\ (a.id # id => b = a)

\* C24 as stated: check-out only updates a row created by a check-in;
\* handleCheckOut does nothing when the table has no attendance record of the
\* user for today, never creates a row, and when it succeeds sets only
\* check_out.
C24_CheckOutOnlyUpdates ==
  [][\A t \in Tabs :
       /\ (tab[t].op = "idle" /\ tab'[t].op = "checkOut")
          => AttendanceFor(tab[t].user, Today(clock)) # {}
       /\ (tab[t].op = "checkOut" /\ tab'[t].op = "idle")
          => OnlyCheckOutOf(tab[t].args.id)]_vars

\* C24 amended: handleCheckOut does nothing while the page holds no record
\* (todayRecord is null); otherwise it updates the row the page last fetched
\* as today's, a row a check-in created and which after midnight is the one
\* of the day before; it never creates a row and sets only check_out.
C24_CheckOutUpdatesFetchedRecord ==
  [][\A t \in Tabs :
       /\ (tab[t].op = "idle" /\ tab'[t].op = "checkOut")
          => /\ tab[t].todayRecord # NoRow
             /\ tab'[t].args.id = tab[t].todayRecord.id
             /\ \E a \in attendance : a.id = tab[t].todayRecord.id /\ a.user_id = tab[t].user
             /\ attendance' = attendance
       /\ (tab[t].op = "checkOut" /\ tab'[t].op = "idle")
          => OnlyCheckOutOf(tab[t].args.id)]_vars

\* A check-out succeeded: the one row of the day has its check_out, and its
\* user, date, check_in and status are those of the check-in.
C24_Witness ==
  \E t \in Tabs, a \in attendance :
    /\ tab[t].toast = "Checked Out!"
    /\ attendance = {a}
    /\ a.user_id = "u2" /\ a.date = 0 /\ a.status = "present"
    /\ a.check_out # NNULL /\ a.check_in <= a.check_out


\* The form of tab t was submitted with a start date after its end date.
StartAfterEnd(t) ==
  tab[t].form # NoRow /\ tab[t].form.startDate > tab[t].form.endDate

\* C25: every leave request an employee creates starts in status 'pending',
\* belongs to the user who submitted it and has its start date not after its
\* end date; a submission with the start date after the end date is rejected
\* with 'End date must be after start date' and inserts no row.
C25_NewLeavePendingOwnOrdered ==
  [][/\ \A l \in DOMAIN leave_requests' \ DOMAIN leave_requests :
          /\ leave_requests'[l].status = "pending"
          /\ leave_requests'[l].start_date <= leave_requests'[l].end_date
          /\ \E t \in Tabs :
               /\ tab[t].op = "leaveInsert" /\ tab'[t].op = "idle"
               /\ leave_requests'[l].user_id = tab[t].user
               /\ leave_requests'[l].start_date = tab[t].form.startDate
               /\ leave_requests'[l].end_date = tab[t].form.endDate
     /\ \A t \in Tabs :
          StartAfterEnd(t)'
          => /\ tab'[t].op = "idle"
             /\ tab'[t].toast = "End date must be after start date"
             /\ (tab'[t].form # tab[t].form => leave_requests' = leave_requests)]_vars

\* An employee's rejected submission left the table as it was, after an
\* accepted one-day request of theirs had been inserted as pending.
C25_Witness ==
  /\ StartAfterEnd(1)
  /\ tab[1].toast = "End date must be after start date"
  /\ \E l \in DOMAIN leave_requests \ {FirstLeave} :
       /\ leave_requests[l].user_id = tab[1].user
       /\ leave_requests[l].status = "pending"
       /\ leave_requests[l].start_date = leave_requests[l].end_date
  /\ Cardinality(DOMAIN leave_requests) = 2


\* C26: every account that AuthContext.signUp makes has role 'admin' in its
\* signup metadata, whichever role the caller passed, and the other metadata
\* are those of the call.
C26_SignUpMetadataRoleAdmin ==
  [][\A u \in DOMAIN authUsers' \ DOMAIN authUsers :
       req' = req
       => /\ tab'[1].form # NoRow
          /\ authUsers'[u].email = tab'[1].form.email
          /\ authUsers'[u].raw_user_meta_data.employee_id = tab'[1].form.employeeId
          /\ authUsers'[u].raw_user_meta_data.role = "admin"]_vars

\* A signup called with role 'employee' made an account whose metadata say
\* 'admin'.
C26_Witness ==
  /\ tab[1].form # NoRow
  /\ tab[1].form.role = "employee"
  /\ tab[1].error = ""
  /\ \E u \in DOMAIN authUsers :
       /\ authUsers[u].email = tab[1].form.email
       /\ authUsers[u].raw_user_meta_data.role = "admin"


\* C27: in a leave-action the reviewed_by written to the leave row and the
\* performed_by of the audit-log row are the user the bearer token belongs
\* to, and the notification and the audit row are addressed to the owner of
\* the leave row, whatever the body says.
C27_ReviewerFromToken ==
  [][\A s \in Slots :
       LET r == req[s]
           caller == GetUser(r.header.token)
       IN /\ (r.pc = "leaveUpdate" /\ req'[s].pc = "leaveNotify")
             => /\ caller # "nobody"
                /\ leave_requests'[r.body.leave_id].reviewed_by = caller
                /\ leave_requests'[r.body.leave_id].user_id
                     = leave_requests[r.body.leave_id].user_id
          /\ \A a \in audit_logs' \ audit_logs :
               a.id = r.id
               => /\ a.performed_by = caller
                  /\ a.target_user_id = leave_requests[r.body.leave_id].user_id
          /\ \A n \in notifications' \ notifications :
               n.id = r.id => n.user_id = leave_requests[r.body.leave_id].user_id]_vars

\* The admin's decision whose body named u2 as reviewer and performer and u1
\* as user is recorded as reviewed and performed by u1, for and to u2.
C27_Witness ==
  \E s \in Answered :
    /\ req[s].status = 200
    /\ req[s].body.reviewed_by = "u2" /\ req[s].body.performed_by = "u2"
    /\ req[s].body.user_id = "u1"
    /\ leave_requests[FirstLeave].reviewed_by = "u1"
    /\ \E a \in audit_logs :
         a.id = req[s].id /\ a.performed_by = "u1" /\ a.target_user_id = "u2"
    /\ \E n \in notifications : n.id = req[s].id /\ n.user_id = "u2"


\* C28: the computedNet that a payroll write records in the details of its
\* audit-log row equals the net salary of the payroll row that the same
\* request created or updated, also for periods that have bonus rows.
C28_AuditNetIsRowNet ==
  [][\A s \in Slots :
       (req[s].pc = "payrollAudit" /\ req'[s].pc # "payrollAudit")
       => \A a \in audit_logs' \ audit_logs :
            /\ a.details.payroll_id = req[s].row.id
            /\ a.details.computedNet = req[s].row.net_salary]_vars


\* The payroll row p holds the amounts of the payload b.
HoldsAmounts(p, b) ==
  /\ p.user_id = b.user_id /\ p.month = b.month /\ p.year = b.year
  /\ p.basic_salary = b.basic_salary
  /\ p.allowances = Default0(b.allowances)
  /\ p.deductions = Default0(b.deductions)

\* C29: POST /api/admin/payroll is idempotent on the payroll table: a write
\* that succeeds leaves exactly one row for its (user, month, year), with
\* the amounts of its payload, and a request whose payload the row of its
\* period already holds, as after an earlier request with the same payload,
\* leaves every payroll row as it is; its audit and notification steps add
\* rows to their tables only.
C29_PayrollIdempotent ==
  [][\A s \in Slots :
       LET r == req[s]
           b == r.body
       IN /\ (r.pc \in {"payrollInsert", "payrollUpdate"} /\ req'[s].pc = "payrollAudit")
             => \E p \in payroll' :
                  /\ HoldsAmounts(p, b)
                  /\ p = req'[s].row
                  /\ \A q \in payroll' :
                       (q.user_id = b.user_id /\ q.month = b.month /\ q.year = b.year) => q = p
          /\ ( /\ r.pc \in {"payrollInsert", "payrollUpdate"} /\ req'[s].pc # r.pc
               /\ \E p \in payroll : HoldsAmounts(p, b) )
             => payroll' = payroll
          /\ (r.pc \in {"payrollAudit", "payrollNotify"} /\ req'[s].pc # r.pc)
             => /\ payroll' = payroll
                /\ audit_logs \subseteq audit_logs' /\ notifications \subseteq notifications']_vars

\* The same payload was posted twice and answered 200 twice: the second
\* request found the row the first had created and left it as it was, and
\* each request has its audit row and its notification.
C29_Witness ==
  \E s1, s2 \in Answered :
    /\ req[s1].id < req[s2].id
    /\ req[s1].body = req[s2].body
    /\ req[s1].status = 200 /\ req[s2].status = 200
    /\ req[s1].existing = NoRow
    /\ req[s2].existing = req[s1].row
    /\ req[s2].row = req[s1].row
    /\ {p \in payroll : p.month = req[s1].body.month} = {req[s1].row}
    /\ \A s \in {s1, s2} :
         /\ \E a \in audit_logs : a.id = req[s].id
         /\ \E n \in notifications : n.id = req[s].id


\* C30: whenever add-employee answers {userId, tempPassword}, a profile row
\* with id = userId exists and holds the employee_id, full_name and email of
\* the request.
C30_SuccessHasProfile ==
  \A s \in Answered :
    (req[s].route = "add-employee" /\ req[s].status = 200)
    => /\ req[s].kind = "user"
       /\ req[s].userId \in DOMAIN authUsers
       /\ req[s].userId \in DOMAIN profiles
       /\ profiles[req[s].userId].employee_id = req[s].body.employee_id
       /\ profiles[req[s].userId].full_name = req[s].body.full_name
       /\ profiles[req[s].userId].email = req[s].body.email

\* An employee was added: the answer names the new user, whose profile the
\* trigger made from the request, while the handler's own insert was refused.
C30_Witness ==
  \E s \in Answered :
    /\ req[s].route = "add-employee" /\ req[s].status = 200
    /\ req[s].body.employee_id = "EMP4" /\ req[s].body.email = "u4@x"
    /\ req[s].userId = NewUserId(req[s].id)
    /\ req[s].writes = 4
    /\ profiles[req[s].userId] = ProfileRow("EMP4", "u4@x", "Dana", "employee")

====
